---- MODULE Spec2Model ----
(***************************************************************************)
(* A model of galaxy's object store layer (lib/galaxy/objectstore):        *)
(* the disk backend over a file system, the nested (hierarchical) store    *)
(* and the per-user plugged media resolver, and the distributed store     *)
(* with its free-space monitor.                                            *)
(*                                                                         *)
(* A path is a sequence of components (strings); the file system is one    *)
(* name space, fs = [dirs: set of paths, files: path -> content].          *)
(* An operation's outcome is a record [fs, exc, val]: the file system it   *)
(* leaves, the exception it raised ("" when it returned) and its value.    *)
(***************************************************************************)
EXTENDS Integers, Sequences, FiniteSets, TLC

VARIABLES
    fs,        \* the file system: [dirs |-> set of paths, files |-> [path -> content]]
    conf,      \* the run's configuration: [check_old_style, kw]
    last,      \* the operation executed last, with its arguments and outcome
    pc,        \* concurrent callers: where each thread is in its call
    loc,       \* concurrent callers: each thread's arguments and local variables
    committed, \* concurrent callers: path -> content of the last completed update_from_file
    subject,   \* nested stores: the object of the user the run follows
    media,     \* nested stores: the plugged media list of the user's objects
    hlast,     \* nested stores: the operation executed last, with its outcome
    served,    \* nested stores: per media attribute, the id of the medium whose
               \* backend served the last create of the object (0: none)
    dconf,     \* distributed store: its config_dict and fsmon
    lists,     \* distributed store: the list objects it holds, reference -> sequence
    weighted_backend_ids,          \* distributed store: reference of the live list
    original_weighted_backend_ids, \* distributed store: reference of the original list
    dobj,      \* distributed store: the object, [object_store_id, has_session]
    dlast,     \* distributed store: the operation executed last, with its outcome
    pure,      \* a function of the module applied to an input: [fn, in, out]
    pop,       \* an ObjectStorePopulator and the datasets handed to it
    mon,       \* the monitor thread of the distributed store, inside one round
    shut       \* shutdown of the distributed store beside its monitor thread

diskVars == <<fs, conf, last>>
raceVars == <<pc, loc, committed>>

hierVars == <<subject, media, hlast, served>>

distVars == <<dconf, lists, weighted_backend_ids, original_weighted_backend_ids, dobj, dlast>>

extVars == <<pure, pop, mon, shut>>

vars == <<diskVars, raceVars, hierVars, distVars, extVars>>

----------------------------------------------------------------------------
(* Bounds *)

\* longest file content (in bytes)
MaxLen == 1

Byte == {"a", "b"}

\* file contents: the byte strings a source file may hold
Contents == {c \in UNION {[1..n -> Byte] : n \in 0..MaxLen} :
                \A i \in 1..Len(c) : (i = 1 => c[i] = "a") /\ (i > 1 => c[i] = "b")}

\* object ids (LogicalObject.id)
ObjIds == {1}

None == "None"
\* update_from_file called without a file_name
NoFile == <<"None">>

----------------------------------------------------------------------------
(* os.path *)

RECURSIVE NormFold(_, _, _)
NormFold(s, acc, isabs) ==
    IF s = <<>> THEN acc
    ELSE LET c == Head(s) IN
         IF c = "." THEN NormFold(Tail(s), acc, isabs)
         ELSE IF c = ".."
              THEN IF acc # <<>> /\ acc[Len(acc)] # ".."
                   THEN NormFold(Tail(s), SubSeq(acc, 1, Len(acc) - 1), isabs)
                   ELSE IF isabs THEN NormFold(Tail(s), acc, isabs)
                        ELSE NormFold(Tail(s), Append(acc, ".."), isabs)
              ELSE NormFold(Tail(s), Append(acc, c), isabs)

\* os.path.normpath of a relative path
normpath(s) ==
    LET r == NormFold(s, <<>>, FALSE) IN IF r = <<>> THEN <<".">> ELSE r

\* os.path.abspath of an absolute path: ".." at the root stays at the root
abspath(s) == NormFold(s, <<>>, TRUE)

dirname(p) == IF p = <<>> THEN <<>> ELSE SubSeq(p, 1, Len(p) - 1)

Prefixes(p) == {SubSeq(p, 1, i) : i \in 0..Len(p)}

IsPrefix(r, p) == Len(r) <= Len(p) /\ SubSeq(p, 1, Len(r)) = r

\* os.path.exists
path_exists(f, p) == p \in f.dirs \/ p \in DOMAIN f.files

----------------------------------------------------------------------------
(* galaxy.util helpers the disk store calls *)

\* galaxy.util.path.safe_relpath: the normalized path does not start with ".."
safe_relpath(p) == normpath(p)[1] # ".."

Pad3(n) == IF n < 10 THEN "00" \o ToString(n)
           ELSE IF n < 100 THEN "0" \o ToString(n) ELSE ToString(n)

\* galaxy.util.directory_hash_id: the 3-digit groups of id div 1000
RECURSIVE HashGroups(_)
HashGroups(q) ==
    IF q < 1000 THEN <<Pad3(q)>> ELSE Append(HashGroups(q \div 1000), Pad3(q % 1000))

directory_hash_id(id) == HashGroups(id \div 1000)

\* galaxy.util.path.safe_makedirs: make the directory and its parents; nothing
\* to do when the path exists already
safe_makedirs(f, d) ==
    IF path_exists(f, d) THEN [fs |-> f, ok |-> TRUE]
    ELSE IF \E q \in Prefixes(d) : q \in DOMAIN f.files
         THEN [fs |-> f, ok |-> FALSE]
         ELSE [fs |-> [f EXCEPT !.dirs = @ \cup Prefixes(d)], ok |-> TRUE]

----------------------------------------------------------------------------
(* the file system calls *)

\* open(path, 'w').close(): create or truncate
open_w(f, p) ==
    IF p \in f.dirs \/ dirname(p) \notin f.dirs
    THEN [fs |-> f, ok |-> FALSE]
    ELSE [fs |-> [f EXCEPT !.files = (p :> <<>>) @@ @], ok |-> TRUE]

\* os.remove
os_remove(f, p) ==
    IF p \in DOMAIN f.files
    THEN [fs |-> [f EXCEPT !.files = [q \in (DOMAIN @) \ {p} |-> @[q]]], ok |-> TRUE]
    ELSE [fs |-> f, ok |-> FALSE]

\* shutil.rmtree
rmtree(f, p) ==
    IF p \in f.dirs
    THEN [fs |-> [dirs  |-> {d \in f.dirs : ~IsPrefix(p, d)},
                  files |-> [q \in {x \in DOMAIN f.files : ~IsPrefix(p, x)} |-> f.files[q]]],
          ok |-> TRUE]
    ELSE [fs |-> f, ok |-> FALSE]

\* shutil.copy(file_name, path): into the directory when path is one
SrcName == "upload.dat"

shutil_copy(f, data, p) ==
    LET dst == IF p \in f.dirs THEN Append(p, SrcName) ELSE p IN
    IF dst \in f.dirs \/ dirname(dst) \notin f.dirs
    THEN [fs |-> f, ok |-> FALSE]
    ELSE [fs |-> [f EXCEPT !.files = (dst :> data) @@ @], ok |-> TRUE]

\* a variant of file_read that starts one byte late
file_read_late(data, start, count) ==
    LET from == start + 2
        to   == IF count < 0 THEN Len(data)
                ELSE IF start + 1 + count < Len(data) THEN start + 1 + count ELSE Len(data)
    IN  IF from > to THEN <<>> ELSE SubSeq(data, from, to)

\* file.seek(start); file.read(count)
file_read(data, start, count) ==
    LET from == start + 1
        to   == IF count < 0 THEN Len(data)
                ELSE IF start + count < Len(data) THEN start + count ELSE Len(data)
    IN  IF from > to THEN <<>> ELSE SubSeq(data, from, to)

----------------------------------------------------------------------------
(* ObjectStore and DiskObjectStore.  A store b is                           *)
(* [file_path, extra_dirs, check_old_style]; the keyword arguments k of an  *)
(* operation are [base_dir, dir_only, extra_dir, extra_dir_at_root,         *)
(* alt_name, obj_dir], an absent or empty string being <<>> (or "").        *)

\* the element of a one-element set: TheOne({e(x) : x \in {d}}) is e of the value
\* of d
TheOne(S) == CHOOSE x \in S : TRUE

Ret(f, v) == [fs |-> f, exc |-> "", val |-> v]
Raise(f, e) == [fs |-> f, exc |-> e, val |-> None]

DefaultKw == [base_dir |-> "", dir_only |-> FALSE, extra_dir |-> <<>>,
              extra_dir_at_root |-> FALSE, alt_name |-> <<>>, obj_dir |-> FALSE]

\* ObjectStore.__init__: job_work and temp are always among the extra dirs
ObjectStore_init(file_path, jobs_directory, new_file_path, check_old_style) ==
    [file_path       |-> file_path,
     extra_dirs      |-> [job_work |-> jobs_directory, temp |-> new_file_path],
     check_old_style |-> check_old_style]

dataset_name(obj_id) == "dataset_" \o ToString(obj_id) \o ".dat"

\* a path builder that makes one directory per object id instead of hashing
construct_path_by_id(b, obj_id, old_style, k) ==
    [ok |-> TRUE, path |-> abspath(b.file_path \o <<ToString(obj_id), dataset_name(obj_id)>>)]

\* DiskObjectStore._construct_path: [ok, path]; ok = FALSE is ObjectInvalid
construct_path(b, obj_id, old_style, k) ==
    LET base == abspath(IF k.base_dir \in DOMAIN b.extra_dirs
                        THEN b.extra_dirs[k.base_dir] ELSE b.file_path)
        hashed == directory_hash_id(obj_id)
        withobj == IF k.obj_dir THEN Append(hashed, ToString(obj_id)) ELSE hashed
        rel_path == IF k.extra_dir_at_root THEN k.extra_dir \o withobj
                    ELSE withobj \o k.extra_dir
        path == IF old_style THEN base \o k.extra_dir ELSE base \o rel_path
        leaf == IF k.alt_name # <<>> THEN k.alt_name ELSE <<dataset_name(obj_id)>>
    IN  IF k.extra_dir # <<>> /\ k.extra_dir # normpath(k.extra_dir)
        THEN [ok |-> FALSE, path |-> <<>>]
        ELSE IF k.alt_name # <<>> /\ ~safe_relpath(k.alt_name)
        THEN [ok |-> FALSE, path |-> <<>>]
        ELSE [ok |-> TRUE,
              path |-> abspath(IF k.dir_only THEN path ELSE path \o leaf)]

\* DiskObjectStore.exists
DiskObjectStore_exists(b, f, obj_id, k) ==
    LET old == construct_path(b, obj_id, TRUE, k)
        new == construct_path(b, obj_id, FALSE, k)
    IN  IF ~new.ok THEN Raise(f, "ObjectInvalid")
        ELSE IF b.check_old_style /\ path_exists(f, old.path) THEN Ret(f, TRUE)
        ELSE Ret(f, path_exists(f, new.path))

\* DiskObjectStore.get_filename
DiskObjectStore_get_filename(b, f, obj_id, k) ==
    LET old == construct_path(b, obj_id, TRUE, k)
        new == construct_path(b, obj_id, FALSE, k)
    IN  IF ~new.ok THEN Raise(f, "ObjectInvalid")
        ELSE IF b.check_old_style /\ path_exists(f, old.path) THEN Ret(f, old.path)
        ELSE IF ~path_exists(f, new.path) THEN Raise(f, "ObjectNotFound")
        ELSE Ret(f, new.path)

\* a variant of create_files that makes the directories and leaves the file out
create_files_without_file(b, f, obj_id, k) ==
    TheOne({IF ~made.ok THEN Raise(f, "OSError") ELSE Ret(made.fs, None)
            : made \in {safe_makedirs(f, dirname(construct_path(b, obj_id, FALSE, k).path))}})

\* the second half of DiskObjectStore.create: the directories and the file
create_files(b, f, obj_id, k) ==
    TheOne({
        TheOne({
            IF ~made.ok THEN Raise(f, "OSError")
            ELSE IF k.dir_only THEN Ret(made.fs, None)
            ELSE TheOne({IF ~opened.ok THEN Raise(made.fs, "IOError")
                         ELSE Ret(opened.fs, None)
                         : opened \in {open_w(made.fs, path)}})
            : made \in {safe_makedirs(f, IF k.dir_only THEN path ELSE dirname(path))}})
        : path \in {construct_path(b, obj_id, FALSE, k).path}})

\* DiskObjectStore.create
DiskObjectStore_create(b, f, obj_id, k) ==
    TheOne({
        IF e.exc # "" THEN e
        ELSE IF e.val THEN Ret(f, None)
        ELSE create_files(b, f, obj_id, k)
        : e \in {DiskObjectStore_exists(b, f, obj_id, k)}})

\* DiskObjectStore.size; dir_size is what os.path.getsize gives for a directory
DiskObjectStore_size(b, f, obj_id, k, dir_size) ==
    TheOne({
        IF e.exc # "" THEN e
        ELSE IF ~e.val THEN Ret(f, 0)
        ELSE TheOne({
            IF fn.exc # "" THEN fn
            ELSE IF fn.val \in DOMAIN f.files THEN Ret(f, Len(f.files[fn.val]))
            ELSE Ret(f, dir_size)
            : fn \in {DiskObjectStore_get_filename(b, f, obj_id, k)}})
        : e \in {DiskObjectStore_exists(b, f, obj_id, k)}})

\* DiskObjectStore.empty
DiskObjectStore_empty(b, f, obj_id, k, dir_size) ==
    TheOne({IF s.exc # "" THEN s ELSE Ret(f, s.val = 0)
            : s \in {DiskObjectStore_size(b, f, obj_id, k, dir_size)}})

\* a variant of delete_path that reports success and removes nothing
delete_path_keeps_file(b, f, obj_id, k, entire_dir, path) == Ret(f, TRUE)

\* the try block of DiskObjectStore.delete, path being what get_filename gave
delete_path(b, f, obj_id, k, entire_dir, path) ==
    IF entire_dir /\ (k.extra_dir # <<>> \/ k.obj_dir)
    THEN TheOne({IF rt.ok THEN Ret(rt.fs, TRUE) ELSE Ret(f, FALSE)
                 : rt \in {rmtree(f, path)}})
    ELSE IF DiskObjectStore_exists(b, f, obj_id, k).val
    THEN TheOne({IF rm.ok THEN Ret(rm.fs, TRUE) ELSE Ret(f, FALSE)
                 : rm \in {os_remove(f, path)}})
    ELSE Ret(f, FALSE)

\* DiskObjectStore.delete
DiskObjectStore_delete(b, f, obj_id, k, entire_dir) ==
    TheOne({
        IF fn.exc # "" THEN fn ELSE delete_path(b, f, obj_id, k, entire_dir, fn.val)
        : fn \in {DiskObjectStore_get_filename(b, f, obj_id, k)}})

\* DiskObjectStore.get_data
DiskObjectStore_get_data(b, f, obj_id, k, start, count) ==
    TheOne({
        IF fn.exc # "" THEN fn
        ELSE IF fn.val \notin DOMAIN f.files THEN Raise(f, "IOError")
        ELSE Ret(f, file_read(f.files[fn.val], start, count))
        : fn \in {DiskObjectStore_get_filename(b, f, obj_id, k)}})

\* the copy of DiskObjectStore.update_from_file (preserve_symlinks = False)
copy_to_object(b, f, obj_id, k, file_name) ==
    TheOne({
        IF fn.exc # "" THEN fn
        ELSE TheOne({IF ~cp.ok THEN Raise(f, "IOError") ELSE Ret(cp.fs, None)
                     : cp \in {shutil_copy(f, file_name, fn.val)}})
        : fn \in {DiskObjectStore_get_filename(b, f, obj_id, k)}})

\* update_from_file after the create: if file_name and self.exists(obj)
update_existing(b, f, obj_id, k, file_name) ==
    TheOne({
        IF e.exc # "" THEN e
        ELSE IF file_name = NoFile \/ ~e.val THEN Ret(f, None)
        ELSE copy_to_object(b, f, obj_id, k, file_name)
        : e \in {DiskObjectStore_exists(b, f, obj_id, k)}})

\* DiskObjectStore.update_from_file; file_name is NoFile or the content of the
\* source file
DiskObjectStore_update_from_file(b, f, obj_id, k, file_name, create) ==
    TheOne({
        IF c.exc # "" THEN c ELSE update_existing(b, c.fs, obj_id, k, file_name)
        : c \in {IF create THEN DiskObjectStore_create(b, f, obj_id, k) ELSE Ret(f, None)}})

\* DiskObjectStore.get_object_url
DiskObjectStore_get_object_url(b, f, obj_id, k) == Ret(f, None)


----------------------------------------------------------------------------
(* The disk store under test and the operations a caller issues on it *)

FilesDir == <<"srv", "files">>
JobsDir  == <<"srv", "jobs">>
TmpDir   == <<"srv", "tmp">>

Disk == ObjectStore_init(FilesDir, JobsDir, TmpDir, conf.check_old_style)

\* the directories that exist before the first operation
InitFs == [dirs  |-> Prefixes(FilesDir) \cup Prefixes(JobsDir) \cup Prefixes(TmpDir),
           files |-> <<>>]

ExtraDirs == {<<>>, <<"000">>, <<"..">>, <<"x", "..">>}
AltNames  == {<<>>, <<"a">>, <<"..", "e">>}

\* the keyword arguments a run may use
KwSet == {k \in [base_dir : {"", "job_work"}, dir_only : BOOLEAN, extra_dir : ExtraDirs,
                 extra_dir_at_root : BOOLEAN, alt_name : AltNames, obj_dir : BOOLEAN] :
            /\ k.extra_dir = <<>> => ~k.extra_dir_at_root
            /\ k.dir_only => k.alt_name = <<>>
            /\ k.base_dir # "" => k.extra_dir = <<>> /\ k.alt_name = <<>>
            /\ k.extra_dir = <<"x", "..">> => k.alt_name = <<>> /\ ~k.obj_dir
            /\ k.alt_name = <<"..", "e">> => ~k.obj_dir}

\* the operations whose signature has no dir_only (ObjectStore.empty, size,
\* get_data, update_from_file, get_object_url)
NoDirOnly(k) == [k EXCEPT !.dir_only = FALSE]

NoOp == [op |-> "init", id |-> 0, k |-> DefaultKw, entire_dir |-> FALSE, start |-> 0,
         count |-> 0, file_name |-> NoFile, create |-> FALSE,
         exc |-> "", val |-> None, changed |-> FALSE, chain |-> 0, chain_src |-> NoFile]

\* chain counts how far the sequence create; update_from_file(src); get_data(0, -1)
\* on one object with one set of keyword arguments has got, nothing in between
Chain(op, id, k, r, a) ==
    IF r.exc # "" THEN 0
    ELSE IF op = "create" THEN 1
    ELSE IF /\ op = "update_from_file" /\ last.chain = 1 /\ last.id = id
            /\ NoDirOnly(last.k) = k /\ a.file_name # NoFile THEN 2
    ELSE IF /\ op = "get_data" /\ last.chain = 2 /\ last.id = id /\ last.k = k
            /\ a.start = 0 /\ a.count = -1 THEN 3
    ELSE 0

Args == [entire_dir |-> FALSE, start |-> 0, count |-> 0, file_name |-> NoFile,
         create |-> FALSE]

Done(op, id, k, a, r) ==
    /\ fs' = r.fs
    /\ last' = [op |-> op, id |-> id, k |-> k, entire_dir |-> a.entire_dir,
                start |-> a.start, count |-> a.count,
                file_name |-> a.file_name,
                create |-> a.create, exc |-> r.exc, val |-> r.val,
                changed |-> (r.fs # fs), chain |-> Chain(op, id, k, r, a),
                chain_src |-> IF Chain(op, id, k, r, a) = 2 THEN a.file_name
                              ELSE IF Chain(op, id, k, r, a) = 3 THEN last.chain_src
                              ELSE NoFile]
    /\ UNCHANGED <<conf, raceVars, hierVars, distVars, extVars>>

Exists(id, k) == Done("exists", id, k, Args, DiskObjectStore_exists(Disk, fs, id, k))

Create(id, k) == Done("create", id, k, Args, DiskObjectStore_create(Disk, fs, id, k))

Empty(id, k, dir_size) ==
    Done("empty", id, NoDirOnly(k), Args,
         DiskObjectStore_empty(Disk, fs, id, NoDirOnly(k), dir_size))

Size(id, k, dir_size) ==
    Done("size", id, NoDirOnly(k), Args,
         DiskObjectStore_size(Disk, fs, id, NoDirOnly(k), dir_size))

Delete(id, k, entire_dir) ==
    Done("delete", id, k, [Args EXCEPT !.entire_dir = entire_dir],
         DiskObjectStore_delete(Disk, fs, id, k, entire_dir))

GetData(id, k, start, count) ==
    Done("get_data", id, NoDirOnly(k), [Args EXCEPT !.start = start, !.count = count],
         DiskObjectStore_get_data(Disk, fs, id, NoDirOnly(k), start, count))

GetFilename(id, k) ==
    Done("get_filename", id, k, Args, DiskObjectStore_get_filename(Disk, fs, id, k))

UpdateFromFile(id, k, file_name, create) ==
    Done("update_from_file", id, NoDirOnly(k),
         [Args EXCEPT !.file_name = file_name, !.create = create],
         DiskObjectStore_update_from_file(Disk, fs, id, NoDirOnly(k), file_name, create))

GetObjectUrl(id, k) ==
    Done("get_object_url", id, NoDirOnly(k), Args,
         DiskObjectStore_get_object_url(Disk, fs, id, NoDirOnly(k)))

Threads == {1, 2}

NoCall == [id |-> 0, k |-> DefaultKw, file_name |-> NoFile, ret |-> "idle", calls |-> 0]

RaceIdle ==
    /\ pc = [t \in Threads |-> "idle"]
    /\ loc = [t \in Threads |-> NoCall]
    /\ committed = <<>>

\* an object handed to a store: its id, whether it has a job attribute, and its
\* media attribute: "absent", "none" (None), "mine" (the list in the variable
\* media) or "other" (another user's list)
NoObj == [id |-> 0, has_job |-> FALSE, media_attr |-> "absent"]

HNoOp == [op |-> "init", obj |-> NoObj, create |-> FALSE, exc |-> "", val |-> None,
          inv |-> <<>>, touched |-> {}]

NotServed == [m \in {"absent", "none", "mine", "other"} |-> 0]

HierIdle ==
    /\ subject = NoObj
    /\ media = <<>>
    /\ hlast = HNoOp
    /\ served = NotServed

\* a distributed store's object: object_store_id is None, a backend id or an id
\* no backend has; has_session tells whether object_session(obj) is a session
NoDObj == [id |-> 0, object_store_id |-> None, has_session |-> FALSE, has_job |-> FALSE,
           media_attr |-> "absent"]

\* the backend ids of config_dict["backends"], in configuration order
DistIds == <<"d1", "d2", "d3">>

DistIdSet == {DistIds[i] : i \in DOMAIN DistIds}

NoPct == [id \in DistIdSet |-> 0]

DNoOp == [op |-> "init", create |-> FALSE, exc |-> "", val |-> None, inv |-> <<>>,
          hook |-> 0, hook_at |-> <<>>, id_before |-> None, drew |-> FALSE,
          pct |-> NoPct, before |-> <<>>]

\* no function applied, no populator, the monitor between two rounds
NoPure == [fn |-> "none"]

NoPop == [object_store_id |-> None, data |-> <<>>]

NoRef == -1

MonAsleep == [pc |-> "sleep", n |-> 0, new |-> [ref |-> 0, val |-> <<>>], pct |-> NoPct,
              before |-> <<>>, held |-> NoRef, sampled |-> <<>>, creates |-> 0]

\* no shutdown under way and no monitor thread followed
NoShut == [spc |-> "idle", mpc |-> "none", running |-> TRUE,
           children |-> [id \in DistIdSet |-> TRUE], woken |-> FALSE, late |-> 0]

ExtIdle ==
    /\ pure = NoPure
    /\ pop = NoPop
    /\ mon = MonAsleep
    /\ shut = NoShut

DistIdle ==
    /\ dconf = [weight |-> <<>>, max_percent_full |-> <<>>,
                global_max_percent_full |-> 0, fsmon |-> FALSE]
    /\ lists = <<>>
    /\ weighted_backend_ids = 0
    /\ original_weighted_backend_ids = 0
    /\ dobj = NoDObj
    /\ dlast = DNoOp

Init ==
    /\ conf \in [check_old_style : BOOLEAN, kw : KwSet]
    /\ fs = InitFs
    /\ last = NoOp
    /\ RaceIdle
    /\ HierIdle
    /\ DistIdle
    /\ ExtIdle

\* the keyword arguments of one call: the run's, or none
Kws == {conf.kw, DefaultKw}

DoExists == \E id \in ObjIds, k \in Kws : Exists(id, k)

DoCreate == \E id \in ObjIds, k \in Kws : Create(id, k)

DoEmpty == \E id \in ObjIds, k \in Kws, ds \in {0, 1} : Empty(id, k, ds)

DoSize == \E id \in ObjIds, k \in Kws, ds \in {0, 1} : Size(id, k, ds)

DoDelete == \E id \in ObjIds, k \in Kws, e \in BOOLEAN : Delete(id, k, e)

DoGetData ==
    \E id \in ObjIds, k \in Kws, st \in {0, 1}, ct \in {-1, 1} : GetData(id, k, st, ct)

DoGetFilename == \E id \in ObjIds, k \in Kws : GetFilename(id, k)

DoUpdateFromFile ==
    \E id \in ObjIds, k \in Kws, c \in Contents \cup {NoFile}, cr \in BOOLEAN :
        UpdateFromFile(id, k, c, cr)

DoGetObjectUrl == \E id \in ObjIds, k \in Kws : GetObjectUrl(id, k)

Next ==
    \/ DoExists
    \/ DoCreate
    \/ DoEmpty
    \/ DoSize
    \/ DoDelete
    \/ DoGetData
    \/ DoGetFilename
    \/ DoUpdateFromFile
    \/ DoGetObjectUrl

Spec == Init /\ [][Next]_vars


----------------------------------------------------------------------------
(* Concurrent callers of one disk store.  A thread runs create or           *)
(* update_from_file one file system call at a time: the exists() test, the  *)
(* makedirs, the open(path, 'w') and the copy are separate steps, and       *)
(* nothing in the store serializes them.                                    *)

\* calls one thread starts
MaxCalls == 2

RaceDone(t, f) ==
    /\ fs' = f
    /\ pc' = [pc EXCEPT ![t] = "idle"]
    /\ UNCHANGED <<conf, last, loc, committed, hierVars, distVars, extVars>>

RaceGoto(t, label, f) ==
    /\ fs' = f
    /\ pc' = [pc EXCEPT ![t] = label]
    /\ UNCHANGED <<conf, last, loc, committed, hierVars, distVars, extVars>>

\* a caller enters DiskObjectStore.create(obj)
RaceCallCreate(t) ==
    /\ pc[t] = "idle" /\ loc[t].calls < MaxCalls
    /\ \E id \in ObjIds :
          loc' = [loc EXCEPT ![t] = [id |-> id, k |-> DefaultKw, file_name |-> NoFile,
                                     ret |-> "idle", calls |-> @.calls + 1]]
    /\ pc' = [pc EXCEPT ![t] = "create_exists"]
    /\ UNCHANGED <<fs, conf, last, committed, hierVars, distVars, extVars>>

\* a caller enters DiskObjectStore.update_from_file(obj, file_name, create)
RaceCallUpdate(t) ==
    /\ pc[t] = "idle" /\ loc[t].calls < MaxCalls
    /\ \E id \in ObjIds, c \in Contents, cr \in BOOLEAN :
          /\ loc' = [loc EXCEPT ![t] = [id |-> id, k |-> DefaultKw, file_name |-> c,
                                        ret |-> "update_exists", calls |-> @.calls + 1]]
          /\ pc' = [pc EXCEPT ![t] = IF cr THEN "create_exists" ELSE "update_exists"]
    /\ UNCHANGED <<fs, conf, last, committed, hierVars, distVars, extVars>>

\* create: if not self.exists(obj)
RaceCreateExists(t) ==
    /\ pc[t] = "create_exists"
    /\ RaceGoto(t, IF DiskObjectStore_exists(Disk, fs, loc[t].id, loc[t].k).val
                   THEN loc[t].ret ELSE "create_makedirs", fs)

\* create: safe_makedirs(dir)
RaceCreateMakedirs(t) ==
    /\ pc[t] = "create_makedirs"
    /\ LET made == safe_makedirs(fs, dirname(construct_path(Disk, loc[t].id, FALSE,
                                                           loc[t].k).path))
       IN  IF made.ok THEN RaceGoto(t, "create_open", made.fs) ELSE RaceDone(t, fs)

\* create: open(path, 'w').close()
RaceCreateOpen(t) ==
    /\ pc[t] = "create_open"
    /\ LET opened == open_w(fs, construct_path(Disk, loc[t].id, FALSE, loc[t].k).path)
       IN  IF opened.ok THEN RaceGoto(t, loc[t].ret, opened.fs) ELSE RaceDone(t, fs)

\* update_from_file: if file_name and self.exists(obj)
RaceUpdateExists(t) ==
    /\ pc[t] = "update_exists"
    /\ RaceGoto(t, IF DiskObjectStore_exists(Disk, fs, loc[t].id, loc[t].k).val
                   THEN "update_copy" ELSE "idle", fs)

\* update_from_file: shutil.copy(file_name, self.get_filename(obj))
RaceUpdateCopy(t) ==
    /\ pc[t] = "update_copy"
    /\ LET fn == DiskObjectStore_get_filename(Disk, fs, loc[t].id, loc[t].k)
           cp == shutil_copy(fs, loc[t].file_name, fn.val)
       IN  IF fn.exc # "" THEN RaceDone(t, fs)
           ELSE IF ~cp.ok THEN RaceDone(t, fs)
           ELSE /\ fs' = cp.fs
                /\ pc' = [pc EXCEPT ![t] = "idle"]
                /\ committed' = (fn.val :> loc[t].file_name) @@ committed
                /\ UNCHANGED <<conf, last, loc, hierVars, distVars, extVars>>

RaceInit ==
    /\ conf \in [check_old_style : BOOLEAN, kw : {DefaultKw}]
    /\ fs = InitFs
    /\ last = NoOp
    /\ RaceIdle
    /\ HierIdle
    /\ DistIdle
    /\ ExtIdle

RaceNext ==
    \E t \in Threads :
        \/ RaceCallCreate(t)
        \/ RaceCallUpdate(t)
        \/ RaceCreateExists(t)
        \/ RaceCreateMakedirs(t)
        \/ RaceCreateOpen(t)
        \/ RaceUpdateExists(t)
        \/ RaceUpdateCopy(t)

SpecRace == RaceInit /\ [][RaceNext]_vars

\* C4 (as claimed): in every interleaving of two creates for one id, one of them
\* followed by an update_from_file, the content written by a completed
\* update_from_file is never truncated to empty by the other create
C4_NoTruncation ==
    \A p \in DOMAIN committed : p \in DOMAIN fs.files /\ fs.files[p] = committed[p]

----------------------------------------------------------------------------
(* NestedObjectStore, HierarchicalObjectStore and UserObjectStore.  A call  *)
(* on them returns [fs, exc, val, inv, media]: inv lists the backends the   *)
(* call invoked, in order, and media is the object's list after the call    *)
(* (pick_a_plugged_media sorts it in place).                                *)

HRet(f, v, inv, ml) == [fs |-> f, exc |-> "", val |-> v, inv |-> inv, media |-> ml]
HRaise(f, e, inv, ml) == [fs |-> f, exc |-> e, val |-> None, inv |-> inv, media |-> ml]

\* the keyword arguments of an operation issued on a nested store
HArgs == [k |-> DefaultKw, entire_dir |-> FALSE, start |-> 0, count |-> -1,
          file_name |-> NoFile, create |-> FALSE, dir_size |-> 0]

\* backend.__getattribute__(method)(obj, **kwargs) on a disk store
backend_call(b, method, f, obj_id, a) ==
    CASE method = "exists" -> DiskObjectStore_exists(b, f, obj_id, a.k)
      [] method = "create" -> DiskObjectStore_create(b, f, obj_id, a.k)
      [] method = "empty" -> DiskObjectStore_empty(b, f, obj_id, a.k, a.dir_size)
      [] method = "size" -> DiskObjectStore_size(b, f, obj_id, a.k, a.dir_size)
      [] method = "delete" -> DiskObjectStore_delete(b, f, obj_id, a.k, a.entire_dir)
      [] method = "get_data" -> DiskObjectStore_get_data(b, f, obj_id, a.k, a.start, a.count)
      [] method = "get_filename" -> DiskObjectStore_get_filename(b, f, obj_id, a.k)
      [] method = "update_from_file" ->
             DiskObjectStore_update_from_file(b, f, obj_id, a.k, a.file_name, a.create)
      [] method = "get_object_url" -> DiskObjectStore_get_object_url(b, f, obj_id, a.k)

UsersJobs == <<"users", "jobs">>
UsersCache == <<"users", "cache">>

\* PluggedMedia.get_config: the configuration of the disk store of one medium
get_config(m, cache_path, jobs_directory) ==
    [file_path |-> m.path, jobs_directory |-> jobs_directory,
     new_file_path |-> cache_path, check_old_style |-> conf.check_old_style]

\* UserObjectStore.__configure_store: [exc, backends], backends keyed by media id
RECURSIVE configure_store(_, _)
configure_store(ml, backends) ==
    IF ml = <<>> THEN [exc |-> "", backends |-> backends]
    ELSE LET m == Head(ml)
             config == get_config(m, UsersCache, UsersJobs)
         IN  IF m.category = "local"
             THEN configure_store(Tail(ml),
                      (m.id :> ObjectStore_init(m.path, config.jobs_directory,
                                                config.new_file_path,
                                                config.check_old_style)) @@ backends)
             ELSE [exc |-> "AttributeError", backends |-> backends]

\* plugged_media.sort(key=lambda p: p.order): a stable sort
RECURSIVE sort_by_order(_)
sort_by_order(ml) ==
    IF ml = <<>> THEN <<>>
    ELSE LET rest == sort_by_order(SubSeq(ml, 1, Len(ml) - 1))
             m == ml[Len(ml)]
             keep == {i \in 1..Len(rest) : rest[i].order <= m.order}
             n == Cardinality(keep)
         IN  SubSeq(rest, 1, n) \o <<m>> \o SubSeq(rest, n + 1, Len(rest))

\* a quota test that leaves the size of the dataset out
within_quota_lenient(m, dataset_size) == m.usage <= m.quota

within_quota(m, dataset_size) == m.usage + dataset_size <= m.quota

\* the while loop of pick_a_plugged_media and what follows it; i = 0 is past the
\* loop, where plugged_media[i] is plugged_media[-1]
RECURSIVE pick_loop(_, _, _, _, _)
pick_loop(pm, i, from_order, dataset_size, enough) ==
    IF i = 0
    THEN IF enough THEN [kind |-> "none"]
         ELSE IF within_quota(pm[Len(pm)], dataset_size) THEN [kind |-> "raise"]
         ELSE [kind |-> "none"]
    ELSE IF \/ (from_order >= pm[i].order /\ pm[i].order > 0)
            \/ (from_order <= pm[i].order /\ pm[i].order < -1)
         THEN IF within_quota(pm[i], dataset_size) THEN [kind |-> "media", m |-> pm[i]]
              ELSE pick_loop(pm, i - 1, from_order, dataset_size, enough)
         ELSE IF enough THEN [kind |-> "none"]
              ELSE IF within_quota(pm[i], dataset_size) THEN [kind |-> "media", m |-> pm[i]]
              ELSE pick_loop(pm, i - 1, from_order, dataset_size, enough)

\* a selection that walks the list in the order it is handed in
pick_a_plugged_media_unsorted(plugged_media, from_order, dataset_size, enough) ==
    IF Len(plugged_media) = 0 THEN [pick |-> [kind |-> "none"], media |-> plugged_media]
    ELSE LET pm == plugged_media
             fo == IF from_order # <<>> THEN from_order[1] - 1 ELSE pm[Len(pm)].order
         IN  [pick |-> pick_loop(pm, Len(pm), fo, dataset_size, enough), media |-> pm]

\* UserObjectStore.pick_a_plugged_media on a list; from_order is <<>> for None.
\* [pick, media]: what it returns or raises, and the list as it leaves it
pick_a_plugged_media(plugged_media, from_order, dataset_size, enough) ==
    IF Len(plugged_media) = 0 THEN [pick |-> [kind |-> "none"], media |-> plugged_media]
    ELSE LET pm == sort_by_order(plugged_media)
             fo == IF from_order # <<>> THEN from_order[1] - 1 ELSE pm[Len(pm)].order
         IN  [pick |-> pick_loop(pm, Len(pm), fo, dataset_size, enough), media |-> pm]

UserEntry(id) == [store |-> "user", key |-> id]
InstanceEntry(key) == [store |-> "instance", key |-> key]

\* a loop that raises once its attempts are used up
RECURSIVE method_call_loop_raising(_, _, _, _, _, _, _, _, _)
method_call_loop_raising(backends, method, obj_id, a, enough, i, from_order, f, h) ==
    IF i = 0 THEN HRaise(f, "Exception", h.inv, h.media)
    ELSE TheOne({
        IF p.pick.kind = "raise"
        THEN method_call_loop_raising(backends, method, obj_id, a, enough, i - 1, from_order, f,
                              [inv |-> h.inv, media |-> p.media])
        ELSE IF p.pick.kind = "media"
        THEN TheOne({
                 IF r.exc = ""
                 THEN HRet(r.fs, r.val, Append(h.inv, UserEntry(p.pick.m.id)), p.media)
                 ELSE method_call_loop_raising(backends, method, obj_id, a, enough, i - 1,
                                       <<p.pick.m.order>>, r.fs,
                                       [inv |-> Append(h.inv, UserEntry(p.pick.m.id)),
                                        media |-> p.media])
                 : r \in {backend_call(backends[p.pick.m.id], method, f, obj_id, a)}})
        ELSE IF 0 \notin DOMAIN backends
        THEN HRaise(f, "AttributeError", h.inv, p.media)
        ELSE TheOne({
                 IF r.exc = "" THEN HRet(r.fs, None, Append(h.inv, UserEntry(0)), p.media)
                 ELSE HRaise(r.fs, "AttributeError", Append(h.inv, UserEntry(0)), p.media)
                 : r \in {DiskObjectStore_create(backends[0], f, obj_id, a.k)}})
        : p \in {pick_a_plugged_media(h.media, from_order, 0, enough)}})

\* the while loop of UserObjectStore._method_call, i iterations left; h is
\* [inv, media] so far.  (x \in {e} names the value of e.)
RECURSIVE method_call_loop(_, _, _, _, _, _, _, _, _)
method_call_loop(backends, method, obj_id, a, enough, i, from_order, f, h) ==
    IF i = 0 THEN HRet(f, None, h.inv, h.media)
    ELSE TheOne({
        IF p.pick.kind = "raise"
        THEN method_call_loop(backends, method, obj_id, a, enough, i - 1, from_order, f,
                              [inv |-> h.inv, media |-> p.media])
        ELSE IF p.pick.kind = "media"
        THEN TheOne({
                 IF r.exc = ""
                 THEN HRet(r.fs, r.val, Append(h.inv, UserEntry(p.pick.m.id)), p.media)
                 ELSE method_call_loop(backends, method, obj_id, a, enough, i - 1,
                                       <<p.pick.m.order>>, r.fs,
                                       [inv |-> Append(h.inv, UserEntry(p.pick.m.id)),
                                        media |-> p.media])
                 : r \in {backend_call(backends[p.pick.m.id], method, f, obj_id, a)}})
        ELSE IF 0 \notin DOMAIN backends
        THEN HRaise(f, "AttributeError", h.inv, p.media)
        ELSE TheOne({
                 IF r.exc = "" THEN HRet(r.fs, None, Append(h.inv, UserEntry(0)), p.media)
                 ELSE HRaise(r.fs, "AttributeError", Append(h.inv, UserEntry(0)), p.media)
                 : r \in {DiskObjectStore_create(backends[0], f, obj_id, a.k)}})
        : p \in {pick_a_plugged_media(h.media, from_order, 0, enough)}})

\* UserObjectStore(obj.media)._method_call(method, obj, **kwargs)
UserObjectStore_method_call(ml, method, f, obj_id, a, enough) ==
    TheOne({
        IF store.exc # "" THEN HRaise(f, store.exc, <<>>, ml)
        ELSE method_call_loop(store.backends, method, obj_id, a, enough, 1 + Len(ml),
                              <<>>, f, [inv |-> <<>>, media |-> ml])
        : store \in {configure_store(ml, <<>>)}})

\* a variant of the test that does not look at the job attribute
uses_user_media_any(obj) ==
    obj.media_attr # "absent" /\ obj.media_attr # "none"

\* a variant of the test that takes the job attribute the wrong way round
uses_user_media_of_jobs(obj) ==
    obj.has_job /\ obj.media_attr # "absent" /\ obj.media_attr # "none"

\* the test every NestedObjectStore operation makes before it looks at its own
\* backends: the object has no job attribute and a media attribute that is not None
uses_user_media(obj) ==
    ~obj.has_job /\ obj.media_attr # "absent" /\ obj.media_attr # "none"

Files2Dir == <<"srv", "files2">>
MediaDir1 == <<"media", "m1">>
MediaDir2 == <<"media", "m2">>
MediaDir3 == <<"media", "m3">>

\* quota of every plugged medium
MediaQuota == 1

Medium(id, path, category, order, usage) ==
    [id |-> id, category |-> category, path |-> path, order |-> order,
     quota |-> MediaQuota, usage |-> usage]

\* the plugged media lists of the user: none, one medium, or two in unsorted order
MediaLists ==
    LET first == {Medium(1, MediaDir1, "local", 1, u) : u \in {0, MediaQuota + 1}}
                 \cup {Medium(1, MediaDir1, "local", -2, 0)}
        second == {Medium(2, MediaDir2, "local", 2, u) : u \in {0, MediaQuota + 1}}
                  \cup {Medium(2, MediaDir2, "s3", 2, 0)}
    IN  {<<>>} \cup {<<m>> : m \in first} \cup {<<n, m>> : n \in second, m \in first}

\* the plugged media list of another user
OtherMedia == <<Medium(3, MediaDir3, "local", 1, 0)>>

\* obj.media of an object that has the attribute and a list in it
obj_media(obj) == IF obj.media_attr = "mine" THEN media ELSE OtherMedia

\* HierarchicalObjectStore.__init__: the instance-wide backends, keyed by order
Backends ==
    (0 :> Disk) @@ (1 :> ObjectStore_init(Files2Dir, JobsDir, TmpDir, conf.check_old_style))

\* a scan that probes the backends from the last one to the first
RECURSIVE get_backend_reversed(_, _, _, _, _)
get_backend_reversed(f, obj_id, a, key, inv) ==
    IF key \notin DOMAIN Backends
    THEN [found |-> FALSE, key |-> key, inv |-> inv, exc |-> ""]
    ELSE TheOne({
        IF e.exc # ""
        THEN [found |-> FALSE, key |-> 1 - key, inv |-> Append(inv, InstanceEntry(1 - key)),
              exc |-> e.exc]
        ELSE IF e.val
        THEN [found |-> TRUE, key |-> 1 - key, inv |-> Append(inv, InstanceEntry(1 - key)),
              exc |-> ""]
        ELSE get_backend_reversed(f, obj_id, a, key + 1, Append(inv, InstanceEntry(1 - key)))
        : e \in {DiskObjectStore_exists(Backends[1 - key], f, obj_id, a.k)}})

\* NestedObjectStore._get_backend: the first backend, from key on, where the
\* object exists; [found, key, inv, exc]
RECURSIVE get_backend(_, _, _, _, _)
get_backend(f, obj_id, a, key, inv) ==
    IF key \notin DOMAIN Backends
    THEN [found |-> FALSE, key |-> key, inv |-> inv, exc |-> ""]
    ELSE TheOne({
        IF e.exc # ""
        THEN [found |-> FALSE, key |-> key, inv |-> Append(inv, InstanceEntry(key)),
              exc |-> e.exc]
        ELSE IF e.val
        THEN [found |-> TRUE, key |-> key, inv |-> Append(inv, InstanceEntry(key)),
              exc |-> ""]
        ELSE get_backend(f, obj_id, a, key + 1, Append(inv, InstanceEntry(key)))
        : e \in {DiskObjectStore_exists(Backends[key], f, obj_id, a.k)}})

\* default of _call_method per method: [val, is_exception]
call_default(method) ==
    CASE method = "exists" -> [val |-> FALSE, is_exception |-> FALSE]
      [] method = "empty" -> [val |-> TRUE, is_exception |-> FALSE]
      [] method = "size" -> [val |-> 0, is_exception |-> FALSE]
      [] method = "delete" -> [val |-> FALSE, is_exception |-> FALSE]
      [] method = "get_object_url" -> [val |-> None, is_exception |-> FALSE]
      [] OTHER -> [val |-> None, is_exception |-> TRUE]

\* a _call_method that hands every call to the primary backend without a scan
call_method_primary(method, obj, ml, f, a) ==
    IF uses_user_media(obj)
    THEN UserObjectStore_method_call(ml, method, f, obj.id, a, FALSE)
    ELSE TheOne({[fs |-> r.fs, exc |-> r.exc, val |-> r.val,
                  inv |-> <<InstanceEntry(0)>>, media |-> ml]
                 : r \in {backend_call(Backends[0], method, f, obj.id, a)}})

\* NestedObjectStore._call_method; ml is obj.media when the object has one
call_method(method, obj, ml, f, a) ==
    IF uses_user_media(obj)
    THEN UserObjectStore_method_call(ml, method, f, obj.id, a, FALSE)
    ELSE TheOne({
        IF g.exc # "" THEN HRaise(f, g.exc, g.inv, ml)
        ELSE IF g.found
        THEN TheOne({[fs |-> r.fs, exc |-> r.exc, val |-> r.val,
                      inv |-> Append(g.inv, InstanceEntry(g.key)), media |-> ml]
                     : r \in {backend_call(Backends[g.key], method, f, obj.id, a)}})
        ELSE IF call_default(method).is_exception
        THEN HRaise(f, "ObjectNotFound", g.inv, ml)
        ELSE HRet(f, call_default(method).val, g.inv, ml)
        : g \in {get_backend(f, obj.id, a, 0, <<>>)}})

\* HierarchicalObjectStore.exists
HierarchicalObjectStore_exists(obj, ml, f, a) ==
    IF uses_user_media(obj)
    THEN UserObjectStore_method_call(ml, "exists", f, obj.id, a, FALSE)
    ELSE TheOne({
        IF g.exc # "" THEN HRaise(f, g.exc, g.inv, ml) ELSE HRet(f, g.found, g.inv, ml)
        : g \in {get_backend(f, obj.id, a, 0, <<>>)}})

\* a create that calls the last backend instead of the primary one
HierarchicalObjectStore_create_last(obj, ml, f, a) ==
    IF uses_user_media(obj)
    THEN UserObjectStore_method_call(ml, "create", f, obj.id, a, FALSE)
    ELSE TheOne({[fs |-> r.fs, exc |-> r.exc, val |-> None,
                  inv |-> <<InstanceEntry(1)>>, media |-> ml]
                 : r \in {DiskObjectStore_create(Backends[1], f, obj.id, a.k)}})

\* HierarchicalObjectStore.create
HierarchicalObjectStore_create(obj, ml, f, a) ==
    IF uses_user_media(obj)
    THEN UserObjectStore_method_call(ml, "create", f, obj.id, a, FALSE)
    ELSE TheOne({[fs |-> r.fs, exc |-> r.exc, val |-> None,
                  inv |-> <<InstanceEntry(0)>>, media |-> ml]
                 : r \in {DiskObjectStore_create(Backends[0], f, obj.id, a.k)}})

\* NestedObjectStore.empty, size, delete, get_data, get_filename, which test
\* for user media themselves, and get_object_url, which leaves it to _call_method
NestedObjectStore_method(method, obj, ml, f, a) ==
    IF uses_user_media(obj) /\ method # "get_object_url"
    THEN UserObjectStore_method_call(ml, method, f, obj.id, a, FALSE)
    ELSE call_method(method, obj, ml, f, a)

\* NestedObjectStore.update_from_file: c is the outcome of the create it starts
\* with when create is set
NestedObjectStore_update_from_file(obj, ml, f, a) ==
    TheOne({
        IF c.exc # "" THEN c
        ELSE TheOne({[u EXCEPT !.inv = c.inv \o @]
                     : u \in {call_method("update_from_file", obj, c.media, c.fs,
                                          [a EXCEPT !.create = FALSE])}})
        : c \in {IF a.create THEN HierarchicalObjectStore_create(obj, ml, f, a)
                 ELSE HRet(f, None, <<>>, ml)}})

----------------------------------------------------------------------------
(* A hierarchical store over two disk backends, and the operations issued   *)
(* on it for objects with and without plugged media.                        *)

\* the objects of the user: a dataset without media attribute, with None, or
\* with the user's list, and a job that carries the list as well
Subjects ==
    {[id |-> id, has_job |-> FALSE, media_attr |-> m] :
         id \in ObjIds, m \in {"absent", "none", "mine"}}
    \cup {[id |-> id, has_job |-> TRUE, media_attr |-> "mine"] : id \in ObjIds}

\* the lists a subject may carry
SubjectMedia(obj) ==
    IF obj.media_attr # "mine" THEN {<<>>}
    ELSE IF obj.has_job THEN {<<Medium(1, MediaDir1, "local", 1, 0)>>}
    ELSE MediaLists

\* the objects of a run: the subject, and a dataset of another user with the
\* same id
Objects == {subject} \cup {[id |-> id, has_job |-> FALSE, media_attr |-> "other"] : id \in ObjIds}

Roots == {FilesDir, Files2Dir, MediaDir1, MediaDir2, MediaDir3}

HierFs == [dirs |-> InitFs.dirs \cup UNION {Prefixes(r) : r \in Roots}, files |-> <<>>]

\* the file system a store starts on when its second backend already holds the
\* dataset obj_id, written there under an earlier configuration
HeldBySecond(obj_id) ==
    TheOne({[dirs |-> HierFs.dirs \cup Prefixes(dirname(p)), files |-> (p :> <<"b">>)]
            : p \in {construct_path(Backends[1], obj_id, FALSE, DefaultKw).path}})

\* what the file system holds under one root
Under(f, root) ==
    [dirs |-> {d \in f.dirs : IsPrefix(root, d)},
     files |-> [p \in {q \in DOMAIN f.files : IsPrefix(root, q)} |-> f.files[p]]]

\* an operation of the hierarchical store, once the store is constructed and
\* handed an object
HDone(op, obj, a, r) ==
    /\ subject.id \in ObjIds
    /\ fs' = r.fs
    /\ media' = IF obj.media_attr = "mine" THEN r.media ELSE media
    /\ hlast' = [op |-> op, obj |-> obj, create |-> a.create, exc |-> r.exc,
                 val |-> r.val, inv |-> r.inv,
                 touched |-> IF r.fs = fs THEN {}
                             ELSE {root \in Roots : Under(r.fs, root) # Under(fs, root)}]
    /\ served' = IF op = "create" /\ r.exc = "" /\ r.inv # <<>>
                     /\ r.inv[Len(r.inv)].store = "user"
                  THEN [served EXCEPT ![obj.media_attr] = r.inv[Len(r.inv)].key]
                  ELSE served
    /\ UNCHANGED <<conf, last, raceVars, subject, distVars, extVars>>

HMethod(method, obj, a) ==
    \E r \in {NestedObjectStore_method(method, obj, obj_media(obj), fs, a)} :
        HDone(method, obj, a, r)

HExists ==
    \E obj \in Objects :
        \E r \in {HierarchicalObjectStore_exists(obj, obj_media(obj), fs, HArgs)} :
            HDone("exists", obj, HArgs, r)

HCreate ==
    \E obj \in Objects :
        \E r \in {HierarchicalObjectStore_create(obj, obj_media(obj), fs, HArgs)} :
            HDone("create", obj, HArgs, r)

HEmpty == \E obj \in Objects : HMethod("empty", obj, HArgs)

HSize == \E obj \in Objects : HMethod("size", obj, HArgs)

HDelete == \E obj \in Objects : HMethod("delete", obj, HArgs)

HGetData == \E obj \in Objects : HMethod("get_data", obj, HArgs)

HGetFilename == \E obj \in Objects : HMethod("get_filename", obj, HArgs)

HGetObjectUrl == \E obj \in Objects : HMethod("get_object_url", obj, HArgs)

HUpdateFromFile ==
    \E obj \in Objects, c \in Contents \ {<<>>}, cr \in BOOLEAN :
        \E a \in {[HArgs EXCEPT !.file_name = c, !.create = cr]} :
            \E r \in {NestedObjectStore_update_from_file(obj, obj_media(obj), fs, a)} :
                HDone("update_from_file", obj, a, r)

HierInit ==
    /\ conf = [check_old_style |-> FALSE, kw |-> DefaultKw]
    /\ fs \in {HierFs} \cup {HeldBySecond(id) : id \in ObjIds}
    /\ last = NoOp
    /\ RaceIdle
    /\ subject \in Subjects
    /\ media \in SubjectMedia(subject)
    /\ hlast = HNoOp
    /\ served = NotServed
    /\ DistIdle
    /\ ExtIdle

HierNext ==
    \/ HExists
    \/ HCreate
    \/ HEmpty
    \/ HSize
    \/ HDelete
    \/ HGetData
    \/ HGetFilename
    \/ HUpdateFromFile
    \/ HGetObjectUrl

SpecHier == HierInit /\ [][HierNext]_vars

----------------------------------------------------------------------------
(* DistributedObjectStore over three disk backends.  The weighted id lists  *)
(* are list objects held by reference: lists maps a reference to the list   *)
(* it denotes.  An operation's outcome is [fs, exc, val, inv, o, hook,      *)
(* drew]: inv the backend calls made, in order, as [id, method]; o the      *)
(* object afterwards; hook the number of _create_object_in_session calls;   *)
(* drew whether random.choice was called.                                   *)

DistDir(id) == <<"srv", id>>

\* an object_store_id that names no backend
UnknownId == "gone"

\* the dataset id of the object handed to the distributed store
DObjId == 1

\* self.backends of the distributed store
DBackends ==
    [id \in DistIdSet |-> ObjectStore_init(DistDir(id), JobsDir, TmpDir, conf.check_old_style)]

\* for i in range(0, weight): append(id)
Repeat(id, n) == [i \in 1..n |-> id]

\* the weight of a backend definition
WeightOf(cd, id) == cd.weight[id]

\* the loop of __init__ over the first n backend definitions: the list
\* weighted_backend_ids it leaves
RECURSIVE weighted_ids(_, _)
weighted_ids(cd, n) ==
    IF n = 0 THEN <<>>
    ELSE weighted_ids(cd, n - 1) \o Repeat(DistIds[n], WeightOf(cd, DistIds[n]))

\* len([i for i in seq if i == id])
Count(seq, id) == Cardinality({i \in DOMAIN seq : seq[i] = id})

\* whether __init__ starts the monitor thread
monitor_started(cd) ==
    /\ cd.fsmon
    /\ \/ cd.global_max_percent_full # 0
       \/ \E id \in DistIdSet : cd.max_percent_full[id] # 0

\* a cap that ignores the backend's own max_percent_full
maxpct_global(cd, id) == cd.global_max_percent_full

\* self.max_percent_full[id] or self.global_max_percent_full
maxpct(cd, id) ==
    IF cd.max_percent_full[id] # 0 THEN cd.max_percent_full[id]
    ELSE cd.global_max_percent_full

\* [_ for _ in seq if _ != id]
Without(seq, id) == SelectSeq(seq, LAMBDA x : x # id)

\* the reference of a list object made by the monitor; the one it made on the
\* tick before is no longer referenced
FreshRef == 1

\* the for loop of __filesystem_monitor from backend n on; new is
\* [ref, val], the list new_weighted_backend_ids refers to
RECURSIVE monitor_loop(_, _, _, _)
monitor_loop(cd, pct, n, new) ==
    IF n > Len(DistIds) THEN new
    ELSE monitor_loop(cd, pct, n + 1,
             IF pct[DistIds[n]] > maxpct(cd, DistIds[n])
             THEN [ref |-> FreshRef, val |-> Without(new.val, DistIds[n])]
             ELSE new)

\* a monitor that removes the ids from the list in place
filesystem_monitor_in_place(cd, ls, original, pct) ==
    TheOne({[lists |-> (original :> new.val), weighted |-> original]
            : new \in {monitor_loop(cd, pct, 1, [ref |-> original, val |-> ls[original]])}})

\* one round of DistributedObjectStore.__filesystem_monitor: the list objects
\* and the reference in weighted_backend_ids it leaves
filesystem_monitor(cd, ls, original, pct) ==
    TheOne({[lists |-> IF new.ref = original THEN (original :> ls[original])
                       ELSE (original :> ls[original]) @@ (new.ref :> new.val),
             weighted |-> new.ref]
            : new \in {monitor_loop(cd, pct, 1, [ref |-> original, val |-> ls[original]])}})

\* a choice among all backend ids, whatever the list holds
random_choice_any(seq) == DistIdSet

\* random.choice(seq): the values it may return, IndexError on an empty list
random_choice(seq) ==
    IF seq = <<>> THEN {"IndexError"} ELSE {seq[i] : i \in DOMAIN seq}

\* _create_object_in_session: the exception it raises, "" when it returns
create_object_in_session(o) == IF o.has_session THEN "" ELSE "Exception"

DRet(f, v, inv, o, hook_at) ==
    [fs |-> f, exc |-> "", val |-> v, inv |-> inv, o |-> o, hook |-> Len(hook_at),
     hook_at |-> hook_at, drew |-> FALSE]
DRaise(f, e, inv, o, hook_at) ==
    [fs |-> f, exc |-> e, val |-> None, inv |-> inv, o |-> o, hook |-> Len(hook_at),
     hook_at |-> hook_at, drew |-> FALSE]

DCall(id, method) == [id |-> id, method |-> method]

\* the for loop of __get_store_id_for from backend n on: [id, o, hook, exc, inv]
RECURSIVE locate(_, _, _, _, _)
locate(o, f, k, n, inv) ==
    IF n > Len(DistIds)
    THEN [id |-> None, o |-> o, hook |-> 0, hook_at |-> <<>>, exc |-> "", inv |-> inv]
    ELSE TheOne({
        IF e.exc # ""
        THEN [id |-> None, o |-> o, hook |-> 0, hook_at |-> <<>>, exc |-> e.exc,
              inv |-> Append(inv, DCall(DistIds[n], "exists"))]
        ELSE IF e.val
        THEN [id |-> DistIds[n], o |-> [o EXCEPT !.object_store_id = DistIds[n]],
              hook |-> 1, hook_at |-> <<Len(inv) + 1>>, exc |-> create_object_in_session(o),
              inv |-> Append(inv, DCall(DistIds[n], "exists"))]
        ELSE locate(o, f, k, n + 1, Append(inv, DCall(DistIds[n], "exists")))
        : e \in {DiskObjectStore_exists(DBackends[DistIds[n]], f, o.id, k)}})

\* a lookup that returns the backend it located without recording it on the
\* object
get_store_id_for_unrecorded(o, f, k) ==
    IF o.object_store_id \in DistIdSet
    THEN [id |-> o.object_store_id, o |-> o, hook |-> 0, hook_at |-> <<>>, exc |-> "",
          inv |-> <<>>]
    ELSE [locate(o, f, k, 1, <<>>) EXCEPT !.o = o, !.hook = 0, !.hook_at = <<>>, !.exc = ""]

\* DistributedObjectStore.__get_store_id_for
get_store_id_for(o, f, k) ==
    IF o.object_store_id \in DistIdSet
    THEN [id |-> o.object_store_id, o |-> o, hook |-> 0, hook_at |-> <<>>, exc |-> "",
          inv |-> <<>>]
    ELSE locate(o, f, k, 1, <<>>)

\* DistributedObjectStore._call_method
dist_call_method(method, o, f, a) ==
    TheOne({
        IF g.exc # "" THEN DRaise(f, g.exc, g.inv, g.o, g.hook_at)
        ELSE IF g.id # None
        THEN TheOne({[fs |-> r.fs, exc |-> r.exc, val |-> r.val,
                      inv |-> Append(g.inv, DCall(g.id, method)),
                      o |-> g.o, hook |-> g.hook, hook_at |-> g.hook_at, drew |-> FALSE]
                     : r \in {backend_call(DBackends[g.id], method, f, o.id, a)}})
        ELSE IF call_default(method).is_exception
        THEN DRaise(f, "ObjectNotFound", g.inv, g.o, g.hook_at)
        ELSE DRet(f, call_default(method).val, g.inv, g.o, g.hook_at)
        : g \in {get_store_id_for(o, f, a.k)}})

UserCall(key, method) == [id |-> "m" \o ToString(key), method |-> method]

\* UserObjectStore(obj.media)._method_call(method, obj) as an outcome of the
\* distributed store: the calls are those of the media backends
user_media_call(method, o, f, a) ==
    TheOne({[fs |-> r.fs, exc |-> r.exc, val |-> r.val,
             inv |-> [i \in DOMAIN r.inv |-> UserCall(r.inv[i].key, method)],
             o |-> o, hook |-> 0, hook_at |-> <<>>, drew |-> FALSE]
            : r \in {UserObjectStore_method_call(obj_media(o), method, f, o.id, a, FALSE)}})

\* the methods NestedObjectStore defines with a user-media test of their own
MediaTested == {"exists", "empty", "size", "delete", "get_data", "get_filename"}

\* NestedObjectStore.exists, empty, size, delete, get_data, get_filename and
\* get_object_url as the distributed store inherits them: _call_method is
\* DistributedObjectStore._call_method
DistributedObjectStore_method(method, o, f, a) ==
    IF uses_user_media(o) /\ method \in MediaTested
    THEN user_media_call(method, o, f, a)
    ELSE dist_call_method(method, o, f, a)

\* the call of the chosen backend's create that ends DistributedObjectStore.create
create_in_backend(o, f, a, inv, hook_at, drew) ==
    TheOne({[fs |-> r.fs, exc |-> r.exc, val |-> None,
             inv |-> Append(inv, DCall(o.object_store_id, "create")),
             o |-> o, hook |-> Len(hook_at), hook_at |-> hook_at, drew |-> drew]
            : r \in {DiskObjectStore_create(DBackends[o.object_store_id], f, o.id, a.k)}})

\* a selection that calls the backend's create before it records the drawn id
\* in the session
place_hook_after(ex, f, a, choice) ==
    IF ex.o.object_store_id \in DistIdSet
    THEN create_in_backend(ex.o, f, a, ex.inv, ex.hook_at, FALSE)
    ELSE IF choice = "IndexError"
    THEN [DRaise(f, "ObjectInvalid", ex.inv, ex.o, ex.hook_at) EXCEPT !.drew = TRUE]
    ELSE TheOne({
        IF c.exc # "" \/ create_object_in_session(c.o) = "" THEN c
        ELSE [c EXCEPT !.exc = create_object_in_session(c.o)]
        : c \in {create_in_backend([ex.o EXCEPT !.object_store_id = choice], f, a, ex.inv,
                                   Append(ex.hook_at, Len(ex.inv) + 1), TRUE)}})

\* a selection that falls back to the first backend when the list is empty
place_or_first(ex, f, a, choice) ==
    IF ex.o.object_store_id \in DistIdSet
    THEN create_in_backend(ex.o, f, a, ex.inv, ex.hook_at, FALSE)
    ELSE IF create_object_in_session(ex.o) # ""
    THEN [DRaise(f, create_object_in_session(ex.o), ex.inv,
                 [ex.o EXCEPT !.object_store_id = choice],
                 Append(ex.hook_at, Len(ex.inv)))
            EXCEPT !.drew = TRUE]
    ELSE create_in_backend(
             [ex.o EXCEPT !.object_store_id =
                              IF choice = "IndexError" THEN DistIds[1] ELSE choice],
             f, a, ex.inv, Append(ex.hook_at, Len(ex.inv)), TRUE)

\* DistributedObjectStore.create once it found the object missing; ex is the
\* outcome of its exists test, choice what random.choice returns when called
place(ex, f, a, choice) ==
    IF ex.o.object_store_id \in DistIdSet
    THEN create_in_backend(ex.o, f, a, ex.inv, ex.hook_at, FALSE)
    ELSE IF choice = "IndexError"
    THEN [DRaise(f, "ObjectInvalid", ex.inv, ex.o, ex.hook_at) EXCEPT !.drew = TRUE]
    ELSE IF create_object_in_session(ex.o) # ""
    THEN [DRaise(f, create_object_in_session(ex.o), ex.inv,
                 [ex.o EXCEPT !.object_store_id = choice],
                 Append(ex.hook_at, Len(ex.inv)))
            EXCEPT !.drew = TRUE]
    ELSE create_in_backend([ex.o EXCEPT !.object_store_id = choice], f, a,
                           ex.inv, Append(ex.hook_at, Len(ex.inv)), TRUE)

\* DistributedObjectStore.create
DistributedObjectStore_create(o, f, a, choice) ==
    TheOne({
        IF ex.exc # "" THEN ex
        ELSE IF o.object_store_id # None /\ ex.val
        THEN [ex EXCEPT !.val = None]
        ELSE place(ex, f, a, choice)
        : ex \in {IF o.object_store_id = None THEN DRet(f, FALSE, <<>>, o, <<>>)
                  ELSE DistributedObjectStore_method("exists", o, f, a)}})

\* NestedObjectStore.update_from_file on the distributed store
DistributedObjectStore_update_from_file(o, f, a, choice) ==
    TheOne({
        IF c.exc # "" THEN c
        ELSE TheOne({[u EXCEPT !.inv = c.inv \o @, !.hook = c.hook + @,
                               !.hook_at = c.hook_at
                                           \o [i \in DOMAIN @ |-> @[i] + Len(c.inv)],
                               !.drew = c.drew]
                     : u \in {dist_call_method("update_from_file", c.o, c.fs,
                                               [a EXCEPT !.create = FALSE])}})
        : c \in {IF a.create THEN DistributedObjectStore_create(o, f, a, choice)
                 ELSE DRet(f, None, <<>>, o, <<>>)}})

----------------------------------------------------------------------------
(* The operations issued on a distributed store for one object, and the     *)
(* rounds of its monitor thread.                                            *)

\* the usage percentages get_store_usage_percent may report
Pcts == {0, 60, 90}

\* backend definitions: d1 has weight 2 and no cap of its own, d2 weight 1
\* and its own cap, d3 weight 0; or every weight is 0
DConfs ==
    {[weight |-> ("d1" :> 2) @@ ("d2" :> 1) @@ ("d3" :> 0),
      max_percent_full |-> ("d1" :> 0) @@ ("d2" :> 50) @@ ("d3" :> 0),
      global_max_percent_full |-> g, fsmon |-> TRUE] : g \in {0, 80}}
    \cup {[weight |-> [id \in DistIdSet |-> 0],
           max_percent_full |-> [id \in DistIdSet |-> 0],
           global_max_percent_full |-> 0, fsmon |-> FALSE]}

DistRoots == {DistDir(id) : id \in DistIdSet}

DistFs == [dirs |-> InitFs.dirs \cup UNION {Prefixes(r) : r \in DistRoots}, files |-> <<>>]

\* the file system a store starts on when backend id already holds the
\* dataset, written there before the store became a distributed one
DistHeldBy(id) ==
    TheOne({[dirs |-> DistFs.dirs \cup Prefixes(dirname(p)), files |-> (p :> <<"b">>)]
            : p \in {construct_path(DBackends[id], DObjId, FALSE, DefaultKw).path}})

\* an operation of the distributed store, once the store is constructed and
\* handed an object
DDone(op, a, r) ==
    /\ dobj.id # NoDObj.id
    /\ fs' = r.fs
    /\ dobj' = r.o
    /\ dlast' = [op |-> op, create |-> a.create, exc |-> r.exc, val |-> r.val,
                 inv |-> r.inv, hook |-> r.hook, hook_at |-> r.hook_at,
                 id_before |-> dobj.object_store_id,
                 drew |-> r.drew, pct |-> NoPct, before |-> <<>>]
    /\ UNCHANGED <<conf, last, raceVars, hierVars, dconf, lists,
                   weighted_backend_ids, original_weighted_backend_ids, extVars>>

DMethod(method) ==
    /\ dobj.id # NoDObj.id
    /\ \E r \in {DistributedObjectStore_method(method, dobj, fs, HArgs)} :
           DDone(method, HArgs, r)

DExists == DMethod("exists")

DEmpty == DMethod("empty")

DSize == DMethod("size")

DDelete == DMethod("delete")

DGetData == DMethod("get_data")

DGetFilename == DMethod("get_filename")

DGetObjectUrl == DMethod("get_object_url")

DCreate ==
    /\ dobj.id # NoDObj.id
    /\ \E choice \in random_choice(lists[weighted_backend_ids]) :
           \E r \in {DistributedObjectStore_create(dobj, fs, HArgs, choice)} :
               DDone("create", HArgs, r)

DUpdateFromFile ==
    /\ dobj.id # NoDObj.id
    /\ \E cr \in BOOLEAN, choice \in random_choice(lists[weighted_backend_ids]) :
           \E a \in {[HArgs EXCEPT !.file_name = <<"a">>, !.create = cr]} :
               \E r \in {DistributedObjectStore_update_from_file(dobj, fs, a, choice)} :
                   DDone("update_from_file", a, r)

\* one round of the monitor thread; pct is what the backends report
DMonitorTick ==
    /\ monitor_started(dconf)
    /\ \E pct \in [DistIdSet -> Pcts] :
           \E r \in {filesystem_monitor(dconf, lists, original_weighted_backend_ids, pct)} :
               /\ lists' = r.lists
               /\ weighted_backend_ids' = r.weighted
               /\ dlast' = [DNoOp EXCEPT !.op = "tick", !.pct = pct,
                                         !.id_before = dobj.object_store_id,
                                         !.before = lists[weighted_backend_ids]]
    /\ UNCHANGED <<diskVars, raceVars, hierVars, dconf, original_weighted_backend_ids, dobj,
                   extVars>>

DistInit ==
    /\ conf = [check_old_style |-> FALSE, kw |-> DefaultKw]
    /\ fs \in {DistFs, DistHeldBy("d2")}
    /\ last = NoOp
    /\ RaceIdle
    /\ HierIdle
    /\ dconf \in DConfs
    /\ lists = (0 :> weighted_ids(dconf, Len(DistIds)))
    /\ weighted_backend_ids = 0
    /\ original_weighted_backend_ids = 0
    /\ dobj \in [id : {DObjId}, object_store_id : {None, UnknownId, "d3"},
                 has_session : BOOLEAN, has_job : {FALSE}, media_attr : {"absent"}]
    /\ dlast = DNoOp
    /\ ExtIdle

DistNext ==
    \/ DExists
    \/ DCreate
    \/ DEmpty
    \/ DSize
    \/ DDelete
    \/ DGetData
    \/ DGetFilename
    \/ DUpdateFromFile
    \/ DGetObjectUrl
    \/ DMonitorTick

SpecDist == DistInit /\ [][DistNext]_vars

----------------------------------------------------------------------------
(* Either composite store, handed objects with and without job attribute    *)
(* and media list.                                                          *)

\* a job that carries a media list or None, and a dataset that carries a list
RouteSubjects ==
    {[id |-> id, has_job |-> TRUE, media_attr |-> m] : id \in ObjIds, m \in {"mine", "none"}}
    \cup {[id |-> id, has_job |-> FALSE, media_attr |-> "mine"] : id \in ObjIds}

RouteHierInit ==
    /\ conf = [check_old_style |-> FALSE, kw |-> DefaultKw]
    /\ fs \in {HierFs} \cup {HeldBySecond(id) : id \in ObjIds}
    /\ last = NoOp
    /\ RaceIdle
    /\ subject \in RouteSubjects
    /\ media \in SubjectMedia(subject)
    /\ hlast = HNoOp
    /\ served = NotServed
    /\ DistIdle
    /\ ExtIdle

RouteDistInit ==
    /\ conf = [check_old_style |-> FALSE, kw |-> DefaultKw]
    /\ fs \in {DistFs, DistHeldBy("d2")}
    /\ last = NoOp
    /\ RaceIdle
    /\ HierIdle
    /\ dconf \in {cd \in DConfs : cd.global_max_percent_full = 0}
    /\ lists = (0 :> weighted_ids(dconf, Len(DistIds)))
    /\ weighted_backend_ids = 0
    /\ original_weighted_backend_ids = 0
    /\ dobj \in [id : {DObjId}, object_store_id : {None, UnknownId, "d3"},
                 has_session : BOOLEAN, has_job : BOOLEAN, media_attr : {"other", "none"}]
    /\ dlast = DNoOp
    /\ ExtIdle

RouteInit == RouteHierInit \/ RouteDistInit

\* the methods a composite store inherits from NestedObjectStore unchanged
Inherited == MediaTested \cup {"get_object_url"}

\* an inherited method called on the hierarchical store
HInherited == \E method \in Inherited, obj \in Objects : HMethod(method, obj, HArgs)

\* an inherited method called on the distributed store
DInherited == \E method \in Inherited : DMethod(method)

RouteNext ==
    \/ HExists
    \/ HCreate
    \/ HUpdateFromFile
    \/ HInherited
    \/ DCreate
    \/ DUpdateFromFile
    \/ DInherited
    \/ DMonitorTick

SpecRoute == RouteInit /\ [][RouteNext]_vars

----------------------------------------------------------------------------
(* An ObjectStorePopulator over a distributed store: pop is the populator's *)
(* object_store_id and the datasets handed to it so far, each with the      *)
(* exception its call raised ("" when it returned) and the list that was    *)
(* live during the call.                                                    *)

\* the number of datasets handed to one populator
MaxData == 2

\* a populator that does not hand its object_store_id on to the dataset
set_object_store_id_unpinned(p, dataset, f, live, choice) ==
    TheOne({[fs |-> r.fs, create |-> r,
             exc |-> IF r.exc = "ObjectInvalid" THEN "Exception" ELSE r.exc,
             pop |-> [object_store_id |-> IF r.exc = "" THEN r.o.object_store_id
                                          ELSE p.object_store_id,
                      data |-> Append(p.data,
                                  [o |-> r.o, live |-> live,
                                   exc |-> IF r.exc = "ObjectInvalid" THEN "Exception"
                                           ELSE r.exc])]]
            : r \in {DistributedObjectStore_create(
                         [dataset EXCEPT !.object_store_id = None], f, HArgs, choice)}})

\* ObjectStorePopulator.set_object_store_id(data) with data.dataset = dataset,
\* on a distributed store whose random.choice returns choice
set_object_store_id(p, dataset, f, live, choice) ==
    TheOne({[fs |-> r.fs, create |-> r,
             exc |-> IF r.exc = "ObjectInvalid" THEN "Exception" ELSE r.exc,
             pop |-> [object_store_id |-> IF r.exc = "" THEN r.o.object_store_id
                                          ELSE p.object_store_id,
                      data |-> Append(p.data,
                                  [o |-> r.o, live |-> live,
                                   exc |-> IF r.exc = "ObjectInvalid" THEN "Exception"
                                           ELSE r.exc])]]
            : r \in {DistributedObjectStore_create(
                         [dataset EXCEPT !.object_store_id = p.object_store_id],
                         f, HArgs, choice)}})

\* the output datasets of a job: new datasets, numbered in the order they are
\* handed over, with or without a session
NewDataset(n, has_session) ==
    [id |-> n, object_store_id |-> None, has_session |-> has_session, has_job |-> FALSE,
     media_attr |-> "absent"]

PopSetObjectStoreId ==
    /\ Len(pop.data) < MaxData
    /\ \E has_session \in BOOLEAN, choice \in random_choice(lists[weighted_backend_ids]) :
           \E r \in {set_object_store_id(pop, NewDataset(Len(pop.data) + 1, has_session), fs,
                                         lists[weighted_backend_ids], choice)} :
               /\ fs' = r.fs
               /\ pop' = r.pop
               /\ dobj' = r.create.o
               /\ dlast' = [op |-> "create", create |-> FALSE, exc |-> r.create.exc,
                            val |-> None, inv |-> r.create.inv, hook |-> r.create.hook,
                            hook_at |-> r.create.hook_at, id_before |-> pop.object_store_id,
                            drew |-> r.create.drew, pct |-> NoPct, before |-> <<>>]
    /\ UNCHANGED <<conf, last, raceVars, hierVars, dconf, lists, weighted_backend_ids,
                   original_weighted_backend_ids, pure, mon, shut>>

PopInit ==
    /\ conf = [check_old_style |-> FALSE, kw |-> DefaultKw]
    /\ fs = DistFs
    /\ last = NoOp
    /\ RaceIdle
    /\ HierIdle
    /\ dconf \in DConfs
    /\ lists = (0 :> weighted_ids(dconf, Len(DistIds)))
    /\ weighted_backend_ids = 0
    /\ original_weighted_backend_ids = 0
    /\ dobj = NoDObj
    /\ dlast = DNoOp
    /\ ExtIdle

PopNext ==
    \/ PopSetObjectStoreId
    \/ DMonitorTick

SpecPop == PopInit /\ [][PopNext]_vars

----------------------------------------------------------------------------
(* The monitor thread of a distributed store step by step, next to create   *)
(* calls of other threads.  mon is the thread's position (pc, n), its local *)
(* new_weighted_backend_ids (new), the usage the backends report during the *)
(* round (pct), the list that was live when the round began (before), the   *)
(* list object a create has read from self.weighted_backend_ids and not yet *)
(* indexed (held), the list the last create indexed (sampled) and the       *)
(* number of creates made.                                                  *)

\* the number of create calls next to the monitor
MaxCreates == 2

\* the references a new list object may get
Refs == 1..3

\* a reference no name refers to
fresh_ref(weighted, held) == CHOOSE r \in Refs : r \notin {weighted, held}

\* an iteration that assigns the filtered list to self.weighted_backend_ids
\* at once
monitor_step_publishing(cd, ls, weighted, new, n, pct, fresh) ==
    IF pct > maxpct(cd, DistIds[n])
    THEN [new |-> [ref |-> fresh, val |-> Without(new.val, DistIds[n])],
          lists |-> (fresh :> Without(new.val, DistIds[n])) @@ ls,
          weighted |-> fresh]
    ELSE [new |-> new, lists |-> ls, weighted |-> weighted]

\* one iteration of the for loop of __filesystem_monitor, for backend n
\* reporting pct: the thread's local list, the list objects other threads can
\* reach and self.weighted_backend_ids afterwards
monitor_step(cd, ls, weighted, new, n, pct, fresh) ==
    IF pct > maxpct(cd, DistIds[n])
    THEN [new |-> [ref |-> fresh, val |-> Without(new.val, DistIds[n])],
          lists |-> ls, weighted |-> weighted]
    ELSE [new |-> new, lists |-> ls, weighted |-> weighted]

\* the usage reported during a round: d3, whose weight is 0, reports none
MonPcts == {pct \in [DistIdSet -> Pcts] : pct["d3"] = 0}

\* new_weighted_backend_ids = self.original_weighted_backend_ids, at the start
\* of a round; pct is what the backends are going to report during it
MonBegin ==
    /\ mon.pc = "sleep"
    /\ monitor_started(dconf)
    /\ \E pct \in MonPcts :
           mon' = [mon EXCEPT !.pc = "loop", !.n = 1, !.pct = pct,
                              !.new = [ref |-> original_weighted_backend_ids,
                                       val |-> lists[original_weighted_backend_ids]],
                              !.before = lists[weighted_backend_ids]]
    /\ UNCHANGED <<diskVars, raceVars, hierVars, distVars, pure, pop, shut>>

MonStep ==
    /\ mon.pc = "loop"
    /\ mon.n <= Len(DistIds)
    /\ \E r \in {monitor_step(dconf, lists, weighted_backend_ids, mon.new, mon.n,
                               mon.pct[DistIds[mon.n]],
                               fresh_ref(weighted_backend_ids, mon.held))} :
           /\ mon' = [mon EXCEPT !.n = @ + 1, !.new = r.new]
           /\ lists' = r.lists
           /\ weighted_backend_ids' = r.weighted
    /\ UNCHANGED <<diskVars, raceVars, hierVars, dconf, original_weighted_backend_ids,
                   dobj, dlast, pure, pop, shut>>

\* self.weighted_backend_ids = new_weighted_backend_ids, then the sleep; list
\* objects no name refers to any more are gone
MonPublish ==
    /\ mon.pc = "loop"
    /\ mon.n > Len(DistIds)
    /\ weighted_backend_ids' = mon.new.ref
    /\ lists' = [r \in ({original_weighted_backend_ids, mon.new.ref, mon.held}
                         \ {NoRef}) |->
                     IF r = mon.new.ref THEN mon.new.val ELSE lists[r]]
    /\ mon' = [mon EXCEPT !.pc = "sleep"]
    /\ UNCHANGED <<diskVars, raceVars, hierVars, dconf, original_weighted_backend_ids,
                   dobj, dlast, pure, pop, shut>>

\* create of a new dataset, up to the evaluation of self.weighted_backend_ids
\* that is the argument of random.choice
MCreateRead ==
    /\ mon.held = NoRef
    /\ mon.creates < MaxCreates
    /\ dobj.id # NoDObj.id
    /\ mon' = [mon EXCEPT !.held = weighted_backend_ids]
    /\ UNCHANGED <<diskVars, raceVars, hierVars, distVars, pure, pop, shut>>

\* random.choice on the list object read, and the rest of create
MCreateSample ==
    /\ mon.held # NoRef
    /\ \E choice \in random_choice(lists[mon.held]) :
           \E r \in {DistributedObjectStore_create(
                         NewDataset(mon.creates + 1, dobj.has_session), fs, HArgs, choice)} :
               /\ fs' = r.fs
               /\ dobj' = r.o
               /\ dlast' = [op |-> "create", create |-> FALSE, exc |-> r.exc,
                            val |-> None, inv |-> r.inv, hook |-> r.hook,
                            hook_at |-> r.hook_at, id_before |-> None,
                            drew |-> r.drew, pct |-> NoPct, before |-> <<>>]
               /\ mon' = [mon EXCEPT !.held = NoRef, !.sampled = lists[mon.held],
                                     !.creates = @ + 1]
    /\ UNCHANGED <<conf, last, raceVars, hierVars, dconf, lists, weighted_backend_ids,
                   original_weighted_backend_ids, pure, pop, shut>>

MonInit ==
    /\ conf = [check_old_style |-> FALSE, kw |-> DefaultKw]
    /\ fs = DistFs
    /\ last = NoOp
    /\ RaceIdle
    /\ HierIdle
    /\ dconf \in {cd \in DConfs : monitor_started(cd)}
    /\ lists = (0 :> weighted_ids(dconf, Len(DistIds)))
    /\ weighted_backend_ids = 0
    /\ original_weighted_backend_ids = 0
    /\ dobj = NewDataset(DObjId, TRUE)
    /\ dlast = DNoOp
    /\ pure = NoPure
    /\ pop = NoPop
    /\ mon = [MonAsleep EXCEPT !.before = lists[weighted_backend_ids]]
    /\ shut = NoShut

MonNext ==
    \/ MonBegin
    \/ MonStep
    \/ MonPublish
    \/ MCreateRead
    \/ MCreateSample

SpecMon == MonInit /\ [][MonNext]_vars

----------------------------------------------------------------------------
(* shutdown of a distributed store whose monitor thread is running.  shut   *)
(* is the position of the thread that calls shutdown (spc), the position of *)
(* the monitor thread (mpc), the running flag of the store and of each      *)
(* backend, whether the monitor's wait has been notified (woken), and the   *)
(* number of lists the monitor published after the store's flag was         *)
(* cleared (late).                                                          *)

\* publications counted after the flag was cleared
MaxLate == 2

\* a shutdown that leaves the flag as it is
ObjectStore_shutdown_idle(running) == running

\* ObjectStore.shutdown: self.running = False
ObjectStore_shutdown(running) == FALSE

\* the backends NestedObjectStore.shutdown has not reached yet, as positions
\* of self.backends
NotShutDown == {i \in DOMAIN DistIds : shut.children[DistIds[i]]}

\* Sleeper.wake: notify the condition; it reaches the monitor only when the
\* monitor waits on it
Sleeper_wake(mpc) == mpc = "sleep"

\* store.shutdown() is called
SShutdownCall ==
    /\ shut.spc = "idle"
    /\ shut' = [shut EXCEPT !.spc = "children"]
    /\ UNCHANGED <<diskVars, raceVars, hierVars, distVars, pure, pop, mon>>

\* NestedObjectStore.shutdown: the next backend's shutdown
SShutdownChild ==
    /\ shut.spc = "children" /\ NotShutDown # {}
    /\ \E i \in NotShutDown :
           /\ \A j \in NotShutDown : i <= j
           /\ shut' = [shut EXCEPT
                          !.children[DistIds[i]] = ObjectStore_shutdown(@)]
    /\ UNCHANGED <<diskVars, raceVars, hierVars, distVars, pure, pop, mon>>

\* NestedObjectStore.shutdown after its loop: ObjectStore.shutdown of the store
SShutdownFlag ==
    /\ shut.spc = "children" /\ NotShutDown = {}
    /\ shut' = [shut EXCEPT !.running = ObjectStore_shutdown(@), !.spc = "wake"]
    /\ UNCHANGED <<diskVars, raceVars, hierVars, distVars, pure, pop, mon>>

\* DistributedObjectStore.shutdown after super().shutdown(): self.sleeper.wake()
SShutdownWake ==
    /\ shut.spc = "wake"
    /\ shut' = [shut EXCEPT !.woken = Sleeper_wake(shut.mpc), !.spc = "done"]
    /\ UNCHANGED <<diskVars, raceVars, hierVars, distVars, pure, pop, mon>>

\* __filesystem_monitor: while self.running
SMonitorCheck ==
    /\ shut.mpc = "check"
    /\ shut' = [shut EXCEPT !.mpc = IF shut.running THEN "round" ELSE "exit"]
    /\ UNCHANGED <<diskVars, raceVars, hierVars, distVars, pure, pop, mon>>

\* __filesystem_monitor: the body of the loop up to the assignment of
\* self.weighted_backend_ids
SMonitorRound ==
    /\ shut.mpc = "round"
    /\ \E pct \in [DistIdSet -> Pcts] :
           \E r \in {filesystem_monitor(dconf, lists, original_weighted_backend_ids, pct)} :
               /\ lists' = r.lists
               /\ weighted_backend_ids' = r.weighted
    /\ shut' = [shut EXCEPT !.mpc = "sleep",
                            !.late = IF shut.running \/ @ = MaxLate THEN @ ELSE @ + 1]
    /\ UNCHANGED <<diskVars, raceVars, hierVars, dconf, original_weighted_backend_ids,
                   dobj, dlast, pure, pop, mon>>

\* __filesystem_monitor: self.sleeper.sleep(120) returns, notified or after
\* 120 seconds
SMonitorSleep ==
    /\ shut.mpc = "sleep"
    /\ shut' = [shut EXCEPT !.mpc = "check", !.woken = FALSE]
    /\ UNCHANGED <<diskVars, raceVars, hierVars, distVars, pure, pop, mon>>

SShutdown == SShutdownChild \/ SShutdownFlag \/ SShutdownWake

SMonitor == SMonitorCheck \/ SMonitorRound \/ SMonitorSleep

ShutInit ==
    /\ conf = [check_old_style |-> FALSE, kw |-> DefaultKw]
    /\ fs = DistFs
    /\ last = NoOp
    /\ RaceIdle
    /\ HierIdle
    /\ dconf \in {cd \in DConfs : monitor_started(cd)}
    /\ lists = (0 :> weighted_ids(dconf, Len(DistIds)))
    /\ weighted_backend_ids = 0
    /\ original_weighted_backend_ids = 0
    /\ dobj = NoDObj
    /\ dlast = DNoOp
    /\ pure = NoPure
    /\ pop = NoPop
    /\ mon = MonAsleep
    /\ shut = [NoShut EXCEPT !.mpc = "check"]

ShutNext ==
    \/ SShutdownCall
    \/ SShutdownChild
    \/ SShutdownFlag
    \/ SShutdownWake
    \/ SMonitorCheck
    \/ SMonitorRound
    \/ SMonitorSleep

SpecShut == ShutInit /\ [][ShutNext]_vars

\* both threads are scheduled again and again, and the monitor's wait ends
\* after 120 seconds at the latest
SpecShutLive == SpecShut /\ WF_vars(SShutdown) /\ WF_vars(SMonitor)

----------------------------------------------------------------------------
(* Functions of the module applied to inputs drawn from bounded sets: the   *)
(* state is pure = [fn, in, out, done].                                     *)

\* media to pick from: a medium of each tier (order > 0, order -1, order < -1)
\* with usage below, at and above its quota
PickOrders == {2, 1, -1, -2}

PickMedia(id) ==
    {Medium(id, <<"media", "m" \o ToString(id)>>, "local", o, u) :
         o \in PickOrders, u \in 0..(MediaQuota + 1)}

\* the lists handed to pick_a_plugged_media: empty, one medium, or two
PickLists ==
    {<<>>} \cup {<<m>> : m \in PickMedia(1)}
    \cup {<<m, n>> : m \in PickMedia(1), n \in PickMedia(2)}

\* from_order: None (<<>>) or the order of the medium that failed
PickCursors == {<<>>} \cup {<<o>> : o \in PickOrders}

\* dataset sizes: none, what fits an empty medium, more than any quota
PickSizes == 0..(MediaQuota + 1)

PickInputs ==
    [plugged_media : PickLists, from_order : PickCursors, dataset_size : PickSizes,
     enough : BOOLEAN]

ApplyPick ==
    /\ pure.fn = "pick" /\ ~pure.done
    /\ pure' = [pure EXCEPT !.done = TRUE,
                            !.out = pick_a_plugged_media(pure.in.plugged_media,
                                        pure.in.from_order, pure.in.dataset_size,
                                        pure.in.enough).pick]
    /\ UNCHANGED <<diskVars, raceVars, hierVars, distVars, pop, mon, shut>>

\* the calls handed to UserObjectStore._method_call on an empty file system
MethodCallInputs ==
    [media : MediaLists \ {<<>>}, method : {"create", "exists", "get_filename"},
     enough : BOOLEAN]

ApplyMethodCall ==
    /\ pure.fn = "method_call" /\ ~pure.done
    /\ pure' = [pure EXCEPT !.done = TRUE,
                            !.out = UserObjectStore_method_call(pure.in.media,
                                        pure.in.method, HierFs, 1, HArgs,
                                        pure.in.enough).inv]
    /\ UNCHANGED <<diskVars, raceVars, hierVars, distVars, pop, mon, shut>>

\* object ids on both sides of the shard boundaries, up to seven digits
PathIds == {0, 1, 999, 1000, 1001, 1999, 2000, 12345, 123456, 999999, 1000000,
            1000999, 1001000}

\* get_filename's new-style path of two objects under default options
PathInputs == [n : PathIds, m : PathIds]

ApplyPath ==
    /\ pure.fn = "path" /\ ~pure.done
    /\ pure' = [pure EXCEPT !.done = TRUE,
                            !.out = [n |-> construct_path(Disk, pure.in.n, FALSE, DefaultKw),
                                     m |-> construct_path(Disk, pure.in.m, FALSE, DefaultKw)]]
    /\ UNCHANGED <<diskVars, raceVars, hierVars, distVars, pop, mon, shut>>

\* type_to_object_store_class: the class for a store type, None when the type
\* matches no branch
type_to_object_store_class(store) ==
    CASE store = "disk" -> "DiskObjectStore"
      [] store = "s3" -> "S3ObjectStore"
      [] store = "cloud" -> "Cloud"
      [] store = "swift" -> "SwiftObjectStore"
      [] store = "distributed" -> "DistributedObjectStore"
      [] store = "hierarchical" -> "HierarchicalObjectStore"
      [] store = "irods" -> "IRODSObjectStore"
      [] store = "azure_blob" -> "AzureBlobObjectStore"
      [] store = "pithos" -> "PithosObjectStore"
      [] OTHER -> None

\* build_object_store_from_config with a config object: given is where the type
\* comes from (config_xml, config_dict, or config.object_store when neither is
\* passed and no config file exists).  [exc, val, logged]: val is the class whose
\* instance is returned
build_object_store_from_config(given, store) ==
    LET from_object == IF given = "config_dict" THEN "dict" ELSE "xml"
        objectstore_class == type_to_object_store_class(store)
        logged == IF objectstore_class = None THEN <<"error">> ELSE <<>>
    IN  IF objectstore_class = None
        THEN \* None.from_xml(...) or None(...)
             [exc |-> IF from_object = "xml" THEN "AttributeError" ELSE "TypeError",
              val |-> None, logged |-> logged]
        ELSE [exc |-> "", val |-> objectstore_class, logged |-> logged]

\* the store types of the factory's branches, the disabled pulsar, a type no
\* branch names, and a configuration without a type
StoreTypes ==
    {"disk", "s3", "cloud", "swift", "distributed", "hierarchical", "irods",
     "azure_blob", "pithos", "pulsar", "nosuch", None}

BuildInputs == [given : {"config_xml", "config_dict", "config"}, store : StoreTypes]

ApplyBuild ==
    /\ pure.fn = "build" /\ ~pure.done
    /\ pure' = [pure EXCEPT !.done = TRUE,
                            !.out = build_object_store_from_config(pure.in.given,
                                                                   pure.in.store)]
    /\ UNCHANGED <<diskVars, raceVars, hierVars, distVars, pop, mon, shut>>

\* the lists _method_call is handed with its keyword arguments: those of the
\* user, and one whose medium has id 0, the key _method_call looks up for the
\* instance default
DispatchLists ==
    (MediaLists \ {<<>>})
    \cup {<<Medium(0, MediaDir3, "local", 1, u)>> : u \in {0, MediaQuota + 1}}

\* keyword arguments every backend accepts, and ones every backend rejects with
\* ObjectInvalid
BadKw == [DefaultKw EXCEPT !.extra_dir = <<"x", "..">>]

DispatchInputs ==
    [media : DispatchLists, method : {"create", "exists", "get_filename"},
     enough : BOOLEAN, k : {DefaultKw, BadKw}]

\* _method_call(method, obj, enough_quota_on_instance_level_media, **kwargs) on
\* an empty file system: what it raises or returns, the backends it invoked and
\* the media roots it wrote under
ApplyDispatch ==
    /\ pure.fn = "dispatch" /\ ~pure.done
    /\ \E r \in {UserObjectStore_method_call(pure.in.media, pure.in.method, HierFs, 1,
                                             [HArgs EXCEPT !.k = pure.in.k],
                                             pure.in.enough)} :
           pure' = [pure EXCEPT !.done = TRUE,
                                !.out = [exc |-> r.exc, val |-> r.val, inv |-> r.inv,
                                         touched |-> {root \in Roots :
                                                        Under(r.fs, root) # Under(HierFs, root)}]]
    /\ UNCHANGED <<diskVars, raceVars, hierVars, distVars, pop, mon, shut>>

PureInit ==
    /\ conf = [check_old_style |-> FALSE, kw |-> DefaultKw]
    /\ fs = HierFs
    /\ last = NoOp
    /\ RaceIdle
    /\ HierIdle
    /\ DistIdle
    /\ pop = NoPop
    /\ mon = MonAsleep
    /\ shut = NoShut
    /\ \/ pure \in [fn : {"pick"}, in : PickInputs, out : {None}, done : {FALSE}]
       \/ pure \in [fn : {"method_call"}, in : MethodCallInputs, out : {None},
                    done : {FALSE}]
       \/ pure \in [fn : {"path"}, in : PathInputs, out : {None}, done : {FALSE}]
       \/ pure \in [fn : {"build"}, in : BuildInputs, out : {None}, done : {FALSE}]
       \/ pure \in [fn : {"dispatch"}, in : DispatchInputs, out : {None}, done : {FALSE}]

PureNext ==
    \/ ApplyPick
    \/ ApplyMethodCall
    \/ ApplyPath
    \/ ApplyBuild
    \/ ApplyDispatch

SpecPure == PureInit /\ [][PureNext]_vars

----------------------------------------------------------------------------
(* Claims about the disk store, checked under Spec *)

ExistsNow(id, k) == DiskObjectStore_exists(Disk, fs, id, k)

ValidKw(k) == construct_path(Disk, 1, FALSE, k).ok

HasParentRef(k) ==
    \/ \E i \in 1..Len(k.extra_dir) : k.extra_dir[i] = ".."
    \/ \E i \in 1..Len(k.alt_name) : k.alt_name[i] = ".."

\* C1: once create(obj, opts) has returned on the disk store, exists(obj, opts)
\* is true, for every object and every option combination the path builder accepts
C1_CreateThenExists ==
    (last.op = "create" /\ last.exc = "")
        => (ExistsNow(last.id, last.k).exc = "" /\ ExistsNow(last.id, last.k).val)

\* a create with options of its own has made the file
C1_Witness ==
    /\ last.op = "create" /\ last.exc = "" /\ last.changed
    /\ last.k.extra_dir # <<>> /\ last.k.obj_dir

\* C2 (as claimed): once a delete(obj, opts) that reports success has returned,
\* exists(obj, opts) is false, whatever check_old_style is (runs whose keyword
\* arguments have a ".." component set aside)
C2_DeleteThenNotExists ==
    (last.op = "delete" /\ last.exc = "" /\ last.val /\ ~HasParentRef(conf.kw))
        => ~ExistsNow(last.id, last.k).val

\* C3: create(obj); update_from_file(obj, src); get_data(obj, 0, -1) returns
\* exactly the content of src
C3_CreateUpdateGetData ==
    last.chain = 3 => (last.exc = "" /\ last.val = last.chain_src)

\* the sequence has run and has read back a non-empty source
C3_Witness ==
    last.chain = 3 /\ last.exc = "" /\ last.chain_src # <<>> /\ last.k # DefaultKw

\* C5 (as claimed): delete never raises; it returns true when it removed the
\* target and false in every other case, also when the object does not exist
C5_DeleteNeverRaises ==
    (last.op = "delete" /\ ValidKw(last.k))
        => (last.exc = "" /\ (last.val <=> last.changed))

\* C6 (as claimed): empty(obj) on an object that does not exist fails with
\* ObjectNotFound instead of returning a value
C6_EmptyOfAbsentRaises ==
    (last.op = "empty" /\ ValidKw(last.k) /\ ~ExistsNow(last.id, last.k).val)
        => last.exc = "ObjectNotFound"

\* C7 (as claimed): update_from_file(obj, src) with create = False on an object
\* that does not exist fails with ObjectNotFound; it never returns normally
\* having done nothing
C7_UpdateOfAbsentRaises ==
    (/\ last.op = "update_from_file" /\ ~last.create /\ last.file_name # NoFile
     /\ ValidKw(last.k) /\ ~ExistsNow(last.id, last.k).val)
        => last.exc = "ObjectNotFound"

UnderRoot(p) ==
    \E r \in {FilesDir, JobsDir, TmpDir} : IsPrefix(r, p) \/ IsPrefix(p, r)

\* C8 (as claimed): an extra_dir or alt_name with a ".." component is rejected
\* before any file or directory is touched, so no operation ever resolves to a
\* path outside the store's roots
C8_NoPathOutsideRoot ==
    /\ (last.op # "init" /\ HasParentRef(last.k)) => ~last.changed
    /\ \A p \in fs.dirs \cup DOMAIN fs.files : UnderRoot(p)

----------------------------------------------------------------------------
(* Claims about the hierarchical store and plugged media, checked under     *)
(* SpecHier                                                                 *)

\* the media of the list that have a positive order and usage within quota
Usable(ml) == {ml[i] : i \in {j \in 1..Len(ml) : ml[j].order > 0 /\ ml[j].usage <= ml[j].quota}}

\* the one of them with the highest order
Preferred(ml) == CHOOSE m \in Usable(ml) : \A n \in Usable(ml) : n.order <= m.order

\* C9: an operation on an object without job attribute whose media list has a
\* positive-order medium within quota invokes only the backend built for the
\* preferred such medium, at least once when the whole list is local, and changes
\* nothing outside that medium's path: no instance-wide backend and no backend
\* of another list is invoked or modified
C9_OnlyOwnMedium ==
    (/\ hlast.op # "init"
     /\ ~hlast.obj.has_job
     /\ hlast.obj.media_attr \in {"mine", "other"}
     /\ Usable(obj_media(hlast.obj)) # {})
        => LET ml == obj_media(hlast.obj) IN
           /\ \A j \in 1..Len(hlast.inv) : hlast.inv[j] = UserEntry(Preferred(ml).id)
           /\ (\A i \in 1..Len(ml) : ml[i].category = "local") => hlast.inv # <<>>
           /\ hlast.touched \subseteq {Preferred(ml).path}

\* update_from_file on the user's object wrote to the lower-order medium, the
\* higher-order one being over quota
C9_Witness ==
    /\ hlast.op = "update_from_file" /\ hlast.exc = ""
    /\ hlast.obj.media_attr = "mine" /\ ~hlast.obj.has_job
    /\ Len(media) = 2 /\ media[2].usage > media[2].quota
    /\ hlast.inv # <<>>
    /\ hlast.touched = {MediaDir1}

\* the object belongs to a user with no plugged media: no media attribute, None,
\* or an empty list
NoPluggedMedia(obj) ==
    \/ obj.media_attr \in {"absent", "none"}
    \/ obj.media_attr = "mine" /\ media = <<>>

\* C10 (as claimed): an operation on an object of a user with no plugged media
\* is served by the instance-wide backends as for an object with no media
\* context: it invokes only them, fails at most with ObjectNotFound, and create
\* succeeds on the first backend
C10_NoMediaServedByInstance ==
    (hlast.op # "init" /\ NoPluggedMedia(hlast.obj))
        => /\ hlast.exc \in {"", "ObjectNotFound"}
           /\ \A j \in 1..Len(hlast.inv) : hlast.inv[j].store = "instance"
           /\ hlast.op = "create" => hlast.exc = "" /\ hlast.inv = <<InstanceEntry(0)>>

\* the disk store UserObjectStore builds for the medium with this id
MediumStore(ml, id) == configure_store(ml, <<>>).backends[id]

\* C11: with the media list unchanged, every operation on an object is invoked
\* on the backend of the medium that served the object's create; after a create
\* that returned, exists through the store is true; after a delete, that medium
\* does not hold the object
C11_SameMediumAfterCreate ==
    LET obj == hlast.obj
        ml == obj_media(obj)
        id == served[obj.media_attr]
    IN  /\ (hlast.op # "init" /\ ~obj.has_job /\ id # 0)
               => \A j \in 1..Len(hlast.inv) : hlast.inv[j] = UserEntry(id)
        /\ (hlast.op = "create" /\ hlast.exc = "" /\ ~obj.has_job
                /\ obj.media_attr \in {"mine", "other"})
               => /\ id # 0
                  /\ HierarchicalObjectStore_exists(obj, ml, fs, HArgs).val = TRUE
        /\ (hlast.op = "delete" /\ ~obj.has_job /\ id # 0)
               => ~DiskObjectStore_exists(MediumStore(ml, id), fs, obj.id, DefaultKw).val

\* the user's object was created on the lower-order medium of two and a later
\* delete removed it there
C11_Witness ==
    /\ hlast.op = "delete" /\ hlast.exc = "" /\ hlast.inv = <<UserEntry(1)>>
    /\ hlast.obj.media_attr = "mine" /\ ~hlast.obj.has_job
    /\ Len(media) = 2 /\ served["mine"] = 1
    /\ hlast.touched = {MediaDir1}

\* the object carries no user-media context: it has a job attribute, or no
\* media attribute, or a media attribute that is None
NoMediaContext(obj) == obj.has_job \/ obj.media_attr \in {"absent", "none"}

\* the second backend of the hierarchical store holds the dataset
SecondHolds(obj) == DiskObjectStore_exists(Backends[1], fs, obj.id, DefaultKw).val = TRUE

\* C12: on a hierarchical store, create, and update_from_file with create set,
\* of an object without user-media context call create on the first backend
\* only: every backend the operation consults or calls is the first one, and
\* nothing outside the first backend's directory is written or modified,
\* whether or not the second backend already holds the object.
C12_CreateOnFirstChildOnly ==
    (/\ hlast.op = "create" \/ (hlast.op = "update_from_file" /\ hlast.create)
     /\ NoMediaContext(hlast.obj))
        => /\ hlast.inv # <<>>
           /\ \A j \in 1..Len(hlast.inv) : hlast.inv[j] = InstanceEntry(0)
           /\ hlast.op = "create" => Len(hlast.inv) = 1
           /\ hlast.touched \subseteq {FilesDir}

C12_Witness ==
    /\ hlast.op = "update_from_file" /\ hlast.create /\ hlast.exc = ""
    /\ hlast.obj.media_attr = "none"
    /\ hlast.touched = {FilesDir}
    /\ SecondHolds(hlast.obj)

\* the path of the dataset in backend key of the hierarchical store
ChildPath(obj, key) == construct_path(Backends[key], obj.id, FALSE, DefaultKw).path

\* the first backend of the hierarchical store holds the dataset
FirstHolds(obj) == DiskObjectStore_exists(Backends[0], fs, obj.id, DefaultKw).val = TRUE

\* the earliest backend that holds the dataset
EarliestHolder(obj) == IF FirstHolds(obj) THEN 0 ELSE 1

\* C13: on a hierarchical store, a read of an object without user-media
\* context is answered by the earliest backend that holds the object: that
\* backend is the one called, get_filename returns the path in that backend
\* (the second backend's path when only the second holds the object, the first
\* backend's path when both do), get_data returns the bytes stored there and
\* empty tells whether that file is empty; when no backend holds the object
\* get_filename and get_data raise ObjectNotFound.
C13_EarliestHolderAnswers ==
    LET obj == hlast.obj
        h == EarliestHolder(obj)
    IN  (/\ hlast.op \in {"get_filename", "get_data", "empty", "exists"}
         /\ NoMediaContext(obj))
            => /\ hlast.touched = {}
               /\ IF FirstHolds(obj) \/ SecondHolds(obj)
                  THEN /\ hlast.exc = ""
                       /\ hlast.op # "exists" => hlast.inv[Len(hlast.inv)] = InstanceEntry(h)
                       /\ hlast.op = "exists" => hlast.val = TRUE
                       /\ hlast.op = "get_filename" => hlast.val = ChildPath(obj, h)
                       /\ hlast.op = "get_data" => hlast.val = fs.files[ChildPath(obj, h)]
                       /\ hlast.op = "empty" => hlast.val = (fs.files[ChildPath(obj, h)] = <<>>)
                  ELSE /\ hlast.op \in {"get_filename", "get_data"}
                              => hlast.exc = "ObjectNotFound"
                       /\ hlast.op = "exists" => hlast.val = FALSE

C13_Witness ==
    /\ hlast.op = "get_filename" /\ hlast.exc = ""
    /\ hlast.obj.media_attr = "absent"
    /\ ~FirstHolds(hlast.obj) /\ SecondHolds(hlast.obj)
    /\ hlast.val = <<"srv", "files2", "000", "dataset_1.dat">>

\* the hierarchical store's state without the returned value
hview == <<fs, media, served, hlast.op, hlast.obj, hlast.create, hlast.exc, hlast.inv,
           hlast.touched>>

\* the directory of backend key of the hierarchical store
ChildRoot(key) == Backends[key].file_path

\* C28: on a hierarchical store, delete of an object without user-media
\* context probes the backends in order and calls delete on one backend only,
\* the earliest one that holds the object: its file is gone, the call returns
\* True and nothing under any other backend changes, so a copy in the second
\* backend survives the deletion of the first backend's copy; when no backend
\* holds the object it returns False, having only probed, and changes nothing.
C28_DeleteFromEarliestHolderOnly ==
    [][(hlast'.op = "delete" /\ NoMediaContext(hlast'.obj)) =>
          LET obj == hlast'.obj
              h == EarliestHolder(obj)
          IN  IF FirstHolds(obj) \/ SecondHolds(obj)
              THEN /\ hlast'.exc = ""
                   /\ hlast'.val = TRUE
                   /\ hlast'.inv = [j \in 1..(h + 1) |-> InstanceEntry(j - 1)]
                                   \o <<InstanceEntry(h)>>
                   /\ ChildPath(obj, h) \notin DOMAIN fs'.files
                   /\ hlast'.touched = {ChildRoot(h)}
                   /\ \A k \in DOMAIN Backends \ {h} :
                          Under(fs', ChildRoot(k)) = Under(fs, ChildRoot(k))
                   /\ (h = 0 /\ SecondHolds(obj)) =>
                          /\ ChildPath(obj, 1) \in DOMAIN fs'.files
                          /\ fs'.files[ChildPath(obj, 1)] = fs.files[ChildPath(obj, 1)]
              ELSE /\ hlast'.exc = ""
                   /\ hlast'.val = FALSE
                   /\ hlast'.inv = <<InstanceEntry(0), InstanceEntry(1)>>
                   /\ fs' = fs
      ]_hview

\* a delete has removed the first backend's copy and the second backend still
\* holds its own
C28_Witness ==
    /\ hlast.op = "delete" /\ hlast.exc = ""
    /\ NoMediaContext(hlast.obj)
    /\ hlast.inv = <<InstanceEntry(0), InstanceEntry(0)>>
    /\ hlast.touched = {FilesDir}
    /\ ~FirstHolds(hlast.obj) /\ SecondHolds(hlast.obj)

\* C38: on a hierarchical store, create of an object without user-media
\* context that some backend already holds, be it only the second one, changes
\* nothing under any backend, so that get_data returns afterwards what it
\* returned before.
C38_CreateOfHeldObjectChangesNothing ==
    [][(/\ hlast'.op = "create"
        /\ NoMediaContext(hlast'.obj)
        /\ (FirstHolds(hlast'.obj) \/ SecondHolds(hlast'.obj)))
           => fs' = fs
      ]_hview

----------------------------------------------------------------------------
(* Claims about the distributed store, checked under SpecDist *)

\* the list weighted_backend_ids refers to
Live == lists[weighted_backend_ids]

\* the list original_weighted_backend_ids refers to
Original == lists[original_weighted_backend_ids]

\* C14: the weighted list the constructor builds holds each backend id exactly
\* weight times, and a create (alone or at the start of update_from_file)
\* that draws a backend at random sets object_store_id to an id that occurs
\* in the live weighted list, never to a backend of weight 0.
C14_RandomPlacementFromLiveList ==
    /\ dlast.op = "init" =>
           \A id \in DistIdSet : Count(Live, id) = dconf.weight[id]
    /\ (dlast.drew /\ dlast.exc # "ObjectInvalid") =>
           /\ Count(Live, dobj.object_store_id) > 0
           /\ dconf.weight[dobj.object_store_id] > 0

C14_Witness ==
    /\ dlast.op = "create" /\ dlast.drew /\ dlast.exc = ""
    /\ Live = <<"d1", "d1">>
    /\ dobj.object_store_id = "d1"
    /\ dlast.inv = <<DCall("d1", "create")>>

\* C15: a create that has to draw a backend (object_store_id is None, or names
\* no backend while no backend holds the object) while the live weighted list
\* is empty raises ObjectInvalid, calls no backend's create, changes no file
\* and leaves object_store_id as it was.
C15_EmptyListCreateFails ==
    (dlast.op = "create" /\ dlast.drew /\ Live = <<>>)
        => /\ dlast.exc = "ObjectInvalid"
           /\ \A j \in 1..Len(dlast.inv) : dlast.inv[j].method # "create"
           /\ dobj.object_store_id = dlast.id_before
           /\ dlast.hook = 0

C15_Witness ==
    /\ dlast.op = "create" /\ dlast.drew /\ dlast.exc = "ObjectInvalid"
    /\ Live = <<>> /\ Original = <<"d1", "d1", "d2">>
    /\ dlast.id_before = UnknownId
    /\ Len(dlast.inv) = 3

\* the operations other than create, update_from_file without create included
DOtherOps == {"exists", "empty", "size", "delete", "get_data", "get_filename",
              "update_from_file", "get_object_url"}

\* the positions in DistIds of the backends that hold the dataset in f
DHolders(f) ==
    {i \in DOMAIN DistIds :
        DiskObjectStore_exists(DBackends[DistIds[i]], f, DObjId, DefaultKw).val = TRUE}

\* the first n exists probes of a scan in the order of DistIds
Probes(n) == [i \in 1..n |-> DCall(DistIds[i], "exists")]

FirstOf(S) == CHOOSE i \in S : \A j \in S : i <= j

\* what a step of the distributed store changes, but for the returned value
dview == <<fs, lists, weighted_backend_ids, original_weighted_backend_ids, dobj,
           dlast.op, dlast.create, dlast.exc, dlast.inv, dlast.hook, dlast.pct>>

\* the step just taken was an operation other than create on an object whose
\* object_store_id was None or named no backend
LocatingStep ==
    /\ dlast'.op \in DOtherOps /\ ~dlast'.create
    /\ dobj.object_store_id \notin DistIdSet

\* what every such step does when no backend holds the object
NoneHoldsOutcome ==
    /\ dlast'.op \in {"get_data", "get_filename", "update_from_file"}
           => dlast'.exc = "ObjectNotFound"
    /\ dlast'.inv = Probes(Len(DistIds))
    /\ dlast'.hook = 0
    /\ dobj' = dobj
    /\ fs' = fs

\* C16 as stated: on an operation other than create for an object whose
\* object_store_id is None or unknown, the backends are probed in order; when
\* one holds the object its id is set on the object, the session hook is
\* called and the operation runs on that backend; when none does, get_data,
\* get_filename and update_from_file raise ObjectNotFound and object_store_id
\* is unchanged.
C16_AsStated ==
    [][LocatingStep =>
          IF DHolders(fs) # {}
          THEN /\ dobj'.object_store_id = DistIds[FirstOf(DHolders(fs))]
               /\ dlast'.hook = 1
               /\ dlast'.inv = Append(Probes(FirstOf(DHolders(fs))),
                                      DCall(DistIds[FirstOf(DHolders(fs))], dlast'.op))
          ELSE NoneHoldsOutcome]_dview

\* C16: on an operation other than create for an object whose object_store_id
\* is None or unknown, the backends are probed in order; when one holds the
\* object its id is set on the object and the session hook is called; if the
\* object has a session the operation then runs on that backend, and if it
\* has none the hook raises, the operation fails without a call of that
\* backend and the id stays set; when no backend holds the object, get_data,
\* get_filename and update_from_file raise ObjectNotFound and object_store_id
\* is unchanged.
C16_LocateAdoptsHolder ==
    [][LocatingStep =>
          IF DHolders(fs) # {}
          THEN /\ dobj'.object_store_id = DistIds[FirstOf(DHolders(fs))]
               /\ dlast'.hook = 1
               /\ IF dobj.has_session
                  THEN dlast'.inv = Append(Probes(FirstOf(DHolders(fs))),
                                           DCall(DistIds[FirstOf(DHolders(fs))], dlast'.op))
                  ELSE /\ dlast'.exc = "Exception"
                       /\ dlast'.inv = Probes(FirstOf(DHolders(fs)))
                       /\ fs' = fs
          ELSE NoneHoldsOutcome]_dview

C16_Witness ==
    /\ dlast.op = "get_filename" /\ dlast.exc = ""
    /\ dlast.id_before = UnknownId /\ dobj.object_store_id = "d2"
    /\ dlast.hook = 1
    /\ dlast.inv = <<DCall("d1", "exists"), DCall("d2", "exists"), DCall("d2", "get_filename")>>
    /\ dlast.val = <<"srv", "d2", "000", "dataset_1.dat">>

\* C17: create is the only operation that changes object_store_id: a step of
\* exists, empty, size, delete, get_data, get_filename, update_from_file
\* without create or get_object_url leaves the object's object_store_id as it
\* was before the call.
C17_OnlyCreateSetsStoreId ==
    [][(dlast'.op \in DOtherOps /\ ~dlast'.create)
           => dobj'.object_store_id = dobj.object_store_id]_dview

\* the cap that applies to a backend: its own max_percent_full unless that is
\* 0, the global one otherwise
EffectiveCap(id) ==
    IF dconf.max_percent_full[id] = 0 THEN dconf.global_max_percent_full
    ELSE dconf.max_percent_full[id]

\* C18: right after a round of the monitor, a backend whose usage at that
\* round was above its effective cap does not occur in the live weighted
\* list, and every other backend occurs in it as many times as its weight.
C18_TickEvictsOverCap ==
    dlast.op = "tick" =>
        \A id \in DistIdSet :
            IF dlast.pct[id] > EffectiveCap(id)
            THEN Count(Live, id) = 0
            ELSE Count(Live, id) = dconf.weight[id]

C18_Witness ==
    /\ dlast.op = "tick"
    /\ dconf.global_max_percent_full = 80
    /\ dlast.pct["d1"] = 60 /\ dlast.pct["d2"] = 60
    /\ Live = <<"d1", "d1">>

\* C19: a backend a round of the monitor evicted comes back: the original
\* weighted list equals the list built by the constructor after every step,
\* although the live list starts as the same list object, and a round at
\* which a backend missing from the live list reports a usage within its
\* effective cap leaves the live list holding its id weight times.
C19_EvictedBackendReturns ==
    [][/\ lists'[original_weighted_backend_ids'] = weighted_ids(dconf', Len(DistIds))
       /\ dlast'.op = "tick" =>
              \A id \in DistIdSet :
                  (Count(Live, id) = 0 /\ dlast'.pct[id] <= EffectiveCap(id))
                      => Count(lists'[weighted_backend_ids'], id) = dconf.weight[id]]_dview

C19_Witness ==
    /\ dlast.op = "tick"
    /\ dlast.before = <<>>
    /\ Original = <<"d1", "d1", "d2">>
    /\ Live = Original
    /\ weighted_backend_ids = original_weighted_backend_ids

----------------------------------------------------------------------------
(* Claims about the retries of the media resolver, checked under SpecHier *)

\* the medium x precedes the medium y in the order of the media list ml
LowerOrder(ml, x, y) ==
    \A a \in DOMAIN ml, b \in DOMAIN ml :
        (ml[a].id = x /\ ml[b].id = y) => ml[a].order < ml[b].order

\* C20: within one _method_call, a medium picked after the backend of the
\* medium picked before it raised is never that same medium: its order is
\* strictly lower than the order of the medium that failed.
C20_RetryPicksLowerOrder ==
    hlast.op \in {"exists", "create", "empty", "size", "delete", "get_data",
                  "get_filename", "get_object_url"} =>
        \A j \in 1..(Len(hlast.inv) - 1) :
            (/\ hlast.inv[j].store = "user" /\ hlast.inv[j].key # 0
             /\ hlast.inv[j + 1].store = "user" /\ hlast.inv[j + 1].key # 0)
                => /\ hlast.inv[j + 1].key # hlast.inv[j].key
                   /\ LowerOrder(obj_media(hlast.obj), hlast.inv[j + 1].key,
                                 hlast.inv[j].key)

\* the last call was an operation of the hierarchical store
HServed == hlast.op \notin {"init"}

\* the last call was an operation of the distributed store
DServed == dlast.op \notin {"init", "tick"}

\* the last operation put a new id on the object
Assigned == DServed /\ dobj.object_store_id # dlast.id_before

\* C29: an operation of the distributed store that assigns a new
\* object_store_id calls _create_object_in_session once, after the assignment
\* and before any backend is called other than the exists probes that located
\* the object: with a session, the next call made is a call of the backend
\* just assigned; without a session the operation fails with the hook's
\* exception, the id already on the object, no backend called after the hook
\* and no backend's create called at all.
C29_HookBetweenAssignmentAndDelegation ==
    Assigned =>
        /\ Len(dlast.hook_at) = 1
        /\ dlast.hook_at[1] <= Len(dlast.inv)
        /\ \A i \in 1..dlast.hook_at[1] : dlast.inv[i].method = "exists"
        /\ IF dobj.has_session
           THEN /\ Len(dlast.inv) > dlast.hook_at[1]
                /\ dlast.inv[dlast.hook_at[1] + 1].id = dobj.object_store_id
                /\ dlast.exc # "Exception"
           ELSE /\ dlast.exc = "Exception"
                /\ Len(dlast.inv) = dlast.hook_at[1]
                /\ \A i \in DOMAIN dlast.inv : dlast.inv[i].method # "create"

\* a create without a session has drawn an id, left it on the object and
\* failed in the hook before any backend was called
C29_Witness ==
    /\ dlast.op = "create" /\ dlast.drew
    /\ ~dobj.has_session
    /\ dlast.id_before = None /\ dobj.object_store_id \in DistIdSet
    /\ dlast.exc = "Exception"
    /\ dlast.inv = <<>>
    /\ dlast.hook_at = <<0>>

----------------------------------------------------------------------------
(* Claims about the populator, checked under SpecPop *)

\* the path of a dataset in backend id of the distributed store
DatasetPath(o, id) == construct_path(DBackends[id], o.id, FALSE, DefaultKw).path

\* the backends that hold the dataset's file
CreatedIn(o) == {id \in DistIdSet : DatasetPath(o, id) \in DOMAIN fs.files}

\* the calls of the populator that returned
Returned == {i \in DOMAIN pop.data : pop.data[i].exc = ""}

----------------------------------------------------------------------------
(* Claims about the monitor thread next to create calls, checked under      *)
(* SpecMon                                                                  *)

mview == <<fs, lists, weighted_backend_ids, original_weighted_backend_ids, mon>>

\* what is left of a list when every backend reporting usage above its
\* effective cap is taken out
Kept(seq, pct) == SelectSeq(seq, LAMBDA id : pct[id] <= EffectiveCap(id))

\* C30: however the steps of a monitor round and of create calls interleave,
\* the list self.weighted_backend_ids refers to is, during the round, the list
\* that was live when the round began and, from the publication on, the
\* original list filtered by every backend's usage of that round, never a list
\* filtered for some backends only; the list object a create has read stays
\* what it was when read, until the create has indexed it; and no step of a
\* create changes a list object or the reference in weighted_backend_ids or
\* original_weighted_backend_ids.
C30_CreateSeesWholeLists ==
    [][/\ mon'.pc = "loop" => Live' = mon'.before
       /\ mon'.pc = "sleep" => Live' = Kept(Original', mon'.pct)
       /\ Original' = Original
       /\ (mon.held = NoRef /\ mon'.held # NoRef) => lists'[mon'.held] = Live
       /\ (mon.held # NoRef /\ mon'.held = mon.held) => lists'[mon.held] = lists[mon.held]
       /\ (mon'.creates # mon.creates) => mon'.sampled = lists[mon.held]
       /\ (mon'.held # mon.held) =>
              UNCHANGED <<lists, weighted_backend_ids, original_weighted_backend_ids>>
      ]_mview

\* a create read the list before the round published, and is about to index
\* that list although a shorter one is live now
C30_Witness ==
    /\ mon.pc = "sleep"
    /\ mon.held # NoRef
    /\ mon.held # weighted_backend_ids
    /\ lists[mon.held] = mon.before
    /\ Len(Live) < Len(mon.before)
    /\ Live = Kept(Original, mon.pct)

----------------------------------------------------------------------------
(* Claims on the functions applied to bounded inputs.                       *)

PickDone == pure.fn = "pick" /\ pure.done
MethodCallDone == pure.fn = "method_call" /\ pure.done

\* the media of a list with the given id
MediaWithId(ml, id) == {ml[i] : i \in {j \in 1..Len(ml) : ml[j].id = id}}

NothingQualifies ==
    /\ pure.in.plugged_media # <<>>
    /\ \A i \in 1..Len(pure.in.plugged_media) :
           pure.in.plugged_media[i].usage + pure.in.dataset_size
               > pure.in.plugged_media[i].quota

\* C22: when the list is not empty, no medium has usage plus size within its
\* quota and the instance-level flag is false, pick_a_plugged_media raises; it
\* returns neither None nor a medium.
C22_ExhaustedSelectionRaises ==
    (PickDone /\ NothingQualifies /\ ~pure.in.enough) => pure.out.kind = "raise"

PathDone == pure.fn = "path" /\ pure.done

\* the decimal digits of q, most significant first
RECURSIVE Digits(_)
Digits(q) == IF q < 10 THEN <<q>> ELSE Append(Digits(q \div 10), q % 10)

\* the digits padded with zeros on the left to a multiple of three
PadToThree(ds) ==
    IF Len(ds) % 3 = 0 THEN ds
    ELSE IF Len(ds) % 3 = 1 THEN <<0, 0>> \o ds ELSE <<0>> \o ds

\* the digits cut into directories of three characters
Shard(n) ==
    LET ds == PadToThree(Digits(n \div 1000))
    IN  [i \in 1..(Len(ds) \div 3) |->
            ToString(ds[3 * i - 2]) \o ToString(ds[3 * i - 1]) \o ToString(ds[3 * i])]

ParentDir(p) == SubSeq(p, 1, Len(p) - 1)

BuildDone == pure.fn = "build" /\ pure.done

\* C26: for a type that is not a recognized store type the factory logs an
\* error and returns None; it does not raise.
C26_UnknownTypeReturnsNone ==
    (BuildDone /\ pure.in.store \in {"pulsar", "nosuch", None}) =>
        /\ pure.out.logged = <<"error">>
        /\ pure.out.exc = ""
        /\ pure.out.val = None

----------------------------------------------------------------------------
(* Claims on the routing of objects by either composite store, checked      *)
(* under SpecRoute.                                                         *)

\* the files of the file system under the plugged media
MediaFiles(f) == {p \in DOMAIN f.files : IsPrefix(<<"media">>, p)}

\* C23: an operation on an object with a job attribute, whatever its media
\* attribute holds, is served by the store's own backends: the hierarchical
\* store calls only its ordered backends (create the first one) and touches
\* nothing outside them; the distributed store calls only its weighted
\* backends, a successful create ending in the backend recorded on the object,
\* and no file appears under any plugged medium.
C23_JobObjectsUseInstanceBackends ==
    /\ (HServed /\ hlast.obj.has_job) =>
           /\ \A i \in DOMAIN hlast.inv : hlast.inv[i].store = "instance"
           /\ hlast.touched \subseteq {FilesDir, Files2Dir}
           /\ hlast.op = "create" => hlast.inv = <<InstanceEntry(0)>>
    /\ (DServed /\ dobj.has_job) =>
           /\ \A i \in DOMAIN dlast.inv : dlast.inv[i].id \in DistIdSet
           /\ MediaFiles(fs) = {}
           /\ (dlast.op = "create" /\ dlast.exc = "") =>
                  /\ dobj.object_store_id \in DistIdSet
                  /\ dlast.inv # <<>>
                  /\ dlast.inv[Len(dlast.inv)].id = dobj.object_store_id

\* a job that carries another user's media list has been created in a
\* backend drawn from the weighted list
C23_Witness ==
    /\ dlast.op = "create" /\ dlast.exc = "" /\ dlast.drew
    /\ dobj.has_job /\ dobj.media_attr = "other"
    /\ dlast.inv = <<DCall("d1", "create")>>

\* the object has a media list and no job attribute
MediaContext(obj) == ~obj.has_job /\ obj.media_attr \in {"mine", "other"}

\* C27: every operation of either composite store, update_from_file and
\* get_object_url included, on an object with a media list and no job
\* attribute is served by the user's media: no backend of the composite store
\* is called.
C27_MediaObjectsBypassChildren ==
    /\ (HServed /\ MediaContext(hlast.obj)) =>
           \A i \in DOMAIN hlast.inv : hlast.inv[i].store = "user"
    /\ (DServed /\ MediaContext(dobj)) =>
           \A i \in DOMAIN dlast.inv : dlast.inv[i].id \notin DistIdSet

\* the same on the hierarchical store alone
C27_HierarchicalPart ==
    (HServed /\ MediaContext(hlast.obj)) =>
        \A i \in DOMAIN hlast.inv : hlast.inv[i].store = "user"

----------------------------------------------------------------------------
(* Claims on UserObjectStore._method_call applied to bounded inputs.        *)

DispatchDone == pure.fn = "dispatch" /\ pure.done

\* the call at hand succeeds on the backend of any medium: the keyword
\* arguments are valid and the method does not need the dataset to exist
BackendSucceeds == pure.in.k = DefaultKw /\ pure.in.method # "get_filename"

\* the call at hand raises on the backend of any medium
EveryBackendRaises == pure.in.k = BadKw \/ pure.in.method = "get_filename"

\* no medium of the list has its usage within its quota
NothingFits ==
    \A i \in 1..Len(pure.in.media) : pure.in.media[i].usage > pure.in.media[i].quota

\* every medium of the list is a local one, so that the store is constructed
AllLocal == \A i \in 1..Len(pure.in.media) : pure.in.media[i].category = "local"

\* C32: for one operation _method_call invokes at most 1 + len(media) backends
\* and then returns, whatever the selections and the backends do; after a
\* backend invocation that succeeds it invokes no other backend.
C32_DispatchBoundedAndReturns ==
    (DispatchDone /\ AllLocal) =>
        /\ pure.out.exc = ""
        /\ Len(pure.out.inv) <= 1 + Len(pure.in.media)
        /\ BackendSucceeds => Len(pure.out.inv) <= 1

\* C33: when the selection yields None, _method_call invokes the requested
\* operation on the instance default backend, once, and returns its result: an
\* exists with valid arguments returns without raising and writes nothing.
C33_NullSelectionUsesInstanceDefault ==
    (DispatchDone /\ AllLocal /\ NothingFits /\ pure.in.method = "exists"
         /\ pure.in.k = DefaultKw) =>
        /\ pure.out.exc = ""
        /\ Len(pure.out.inv) = 1
        /\ pure.out.touched = {}

\* every attempt of the call invoked the backend of a medium it had picked
EveryAttemptPicked ==
    /\ Len(pure.out.inv) = 1 + Len(pure.in.media)
    /\ \A i \in 1..Len(pure.out.inv) : pure.out.inv[i].key # 0

----------------------------------------------------------------------------
(* Claims on the order in which pick_a_plugged_media walks the list.        *)

\* C34: with the flag of the instance-level quota set, pick_a_plugged_media
\* returns no medium of order below 0, whatever the list and the cursor.
C34_NoNegativeOrderWhenInstanceHasQuota ==
    (PickDone /\ pure.in.enough) =>
        ~(pure.out.kind = "media" /\ pure.out.m.order < 0)

\* the media of the list with order above 0 that have room for the dataset
Qualifying ==
    {i \in 1..Len(pure.in.plugged_media) :
         /\ pure.in.plugged_media[i].order > 0
         /\ pure.in.plugged_media[i].usage + pure.in.dataset_size
                <= pure.in.plugged_media[i].quota}

\* C35: on a selection without cursor, when some medium of order above 0 has
\* usage plus size within its quota, pick_a_plugged_media returns a medium of
\* the list that has room and whose order is the greatest among those media.
C35_FirstSelectionPicksGreatestOrder ==
    (PickDone /\ pure.in.from_order = <<>> /\ Qualifying # {}) =>
        /\ pure.out.kind = "media"
        /\ \E i \in Qualifying : pure.in.plugged_media[i] = pure.out.m
        /\ \A i \in Qualifying : pure.in.plugged_media[i].order <= pure.out.m.order

\* the medium of the greater order has no room for the dataset and the one of
\* the lower order, handed in first, is returned
C35_Witness ==
    /\ PickDone /\ pure.in.from_order = <<>>
    /\ Len(pure.in.plugged_media) = 2
    /\ pure.in.plugged_media[1].order > 0
    /\ pure.in.plugged_media[2].order > pure.in.plugged_media[1].order
    /\ pure.in.plugged_media[2].usage + pure.in.dataset_size
           > pure.in.plugged_media[2].quota
    /\ pure.out.kind = "media"
    /\ pure.out.m = pure.in.plugged_media[1]

----------------------------------------------------------------------------
(* Claims about create and the monitor of the distributed store.            *)

\* C36: a create of the distributed store that fails with ObjectInvalid (the
\* weighted list is empty) or with the error of an object without session
\* leaves object_store_id as it was before the call and has called create on
\* no backend.
C36_FailedCreateLeavesObjectAlone ==
    (dlast.op = "create" /\ dlast.exc \in {"ObjectInvalid", "Exception"}) =>
        /\ dobj.object_store_id = dlast.id_before
        /\ \A i \in 1..Len(dlast.inv) : dlast.inv[i].method # "create"

\* C37: a create of the distributed store that returns, for an object some
\* backend holds already, leaves that backend the only holder, whatever
\* object_store_id the object came with, and the object_store_id recorded
\* afterwards names it.
C37_CreateKeepsSingleHolder ==
    [][(dlast'.op = "create" /\ dlast'.exc = "" /\ DHolders(fs) # {}) =>
          /\ DHolders(fs') = DHolders(fs)
          /\ dobj'.object_store_id \in {DistIds[i] : i \in DHolders(fs')}
      ]_dview

\* C39: after a round of the monitor of a store without global cap, a backend
\* without a cap of its own occurs in the live weighted list as many times as
\* its weight, whatever usage it reported.
C39_UncappedBackendStays ==
    (dlast.op = "tick" /\ dconf.global_max_percent_full = 0) =>
        \A id \in DistIdSet :
            dconf.max_percent_full[id] = 0 => Count(Live, id) = WeightOf(dconf, id)

\* C31: once shutdown of a distributed store with a running monitor has
\* returned, every backend and the store itself have their running flag
\* cleared; the monitor publishes at most one list after the store's flag was
\* cleared; and after shutdown is called the monitor thread eventually leaves
\* its loop, however the two threads interleave.
C31_ShutdownStopsStoreAndMonitor ==
    /\ [](shut.spc = "done" =>
              /\ ~shut.running
              /\ \A id \in DistIdSet : ~shut.children[id])
    /\ [](shut.late <= 1)
    /\ (shut.spc # "idle") ~> (shut.spc = "done" /\ shut.mpc = "exit")

\* the monitor had passed its test when the flag was cleared, published one
\* more list, missed the notification and left the loop after its wait
C31_Witness ==
    /\ shut.spc = "done" /\ shut.mpc = "exit"
    /\ shut.late = 1
    /\ ~shut.woken
    /\ ~shut.running
    /\ \A id \in DistIdSet : ~shut.children[id]

============================================================================
